---- MODULE Spec2Model ----
(***************************************************************************)
(* Zero-Knowledge-Identity-Verification: the orchestration layer.          *)
(*                                                                         *)
(* ProofGenerator (src/app-zkp/README.md, the proof-generator.js text that *)
(* follows the README prose) is modelled as NProcs asynchronous            *)
(* invocations that interleave at every await.  Strings are sequences of   *)
(* character codes, error messages are sequences of text fragments, so     *)
(* that wrapping an error is a concatenation that can be inspected.        *)
(***************************************************************************)
EXTENDS Integers, Sequences, FiniteSets, TLC

\* ------------------------------------------------------------------ bounds
NProcs == 2
MaxClock == 2

\* ------------------------------------------------------- program constants
NameWidth == 16

Procs == 1..NProcs

\* ------------------------------------------------------------------ values
Null == "null"

Rep(c, n) == [k \in 1..n |-> c]

\* "Jean", "Durand"
sJean == <<74, 101, 97, 110>>
sDurand == <<68, 117, 114, 97, 110, 100>>
\* "2000-02-29", "2000-02-30", "1999-02-29", "2000-2-29"
dLeap == <<50, 48, 48, 48, 45, 48, 50, 45, 50, 57>>
dFeb30 == <<50, 48, 48, 48, 45, 48, 50, 45, 51, 48>>
dNoLeap == <<49, 57, 57, 57, 45, 48, 50, 45, 50, 57>>
dShort == <<50, 48, 48, 48, 45, 50, 45, 50, 57>>

Names == {<<>>, sJean, Rep(88, NameWidth), Rep(88, NameWidth + 1)}
Surnames == {<<>>, sDurand, Rep(89, NameWidth + 1)}
Dobs == {dLeap, dFeb30, dNoLeap, dShort}
Licenses == {<<65>>, <<66>>, <<68>>}

\* The inputs offered to generateProof: the base input with one field varied.
BaseInput == [name |-> sJean, surname |-> sDurand, dob |-> dLeap, license |-> <<65>>]
UserInputs ==
    {[BaseInput EXCEPT !.name = n] : n \in Names}
        \cup {[BaseInput EXCEPT !.surname = s] : s \in Surnames}
        \cup {[BaseInput EXCEPT !.dob = d] : d \in Dobs}
        \cup {[BaseInput EXCEPT !.license = l] : l \in Licenses}

\* The four artifact slots of a file bundle and the path each resolves to.
Slots == {"wasm", "zkey", "vkey", "witness"}
PathOf(k) ==
    CASE k = "wasm" -> "circuit.wasm"
      [] k = "zkey" -> "circuit.zkey"
      [] k = "vkey" -> "verification_key.json"
      [] k = "witness" -> "generate_witness.cjs"
ArtifactPaths == {PathOf(k) : k \in Slots}
FullBundle == [k \in Slots |-> PathOf(k)]
Without(S) == [k \in Slots |-> IF k \in S THEN Null ELSE PathOf(k)]
Bundles == {Without(S) : S \in {{}, {"wasm"}, {"zkey"}, {"vkey"}, {"witness"}, {"wasm", "zkey"}}}
Disks == {ArtifactPaths \ S : S \in {{}, {"circuit.wasm"}, {"circuit.zkey"},
                                      {"verification_key.json"}, {"generate_witness.cjs"}}}

\* ------------------------------------------------------------------ errors
\* An error value: its class name, its message (text fragments in order) and
\* the code / signal properties that Node's system errors carry.
NoErr == [name |-> "none", msg |-> <<>>, code |-> "none", signal |-> "none"]
NewError(m) == [name |-> "Error", msg |-> m, code |-> "none", signal |-> "none"]
SysError(m, c, s) == [name |-> "Error", msg |-> <<m>>, code |-> c, signal |-> s]
JsError(n, m) == [name |-> n, msg |-> <<m>>, code |-> "none", signal |-> "none"]

PfxGenerate == "Erreur lors de la generation de preuve: "
PfxExternal == "Generation de preuve echouee: "
PfxScript == "Erreur lors de l'execution du script witness: "
SfxScript == "\n\nVerifiez que: ..."
MsgValidation == "Erreurs de validation:"
MsgNoScript == "Script generate_witness.js requis mais non trouve."
MsgNodeMissing == "Node.js non trouve dans le PATH."
MsgTimeout == "Timeout: Le script de generation de witness a pris plus de 60 secondes"
MsgTooManyFiles == "Trop de fichiers ouverts. Redemarrez l'application."
MsgNoWitness == "Le script n'a pas genere le fichier witness."
MsgEmptyWitness == "Le fichier witness genere est vide"
PfxVerify == "Erreur lors de la verification: "
PfxValidation == "Validation echouee: "
PfxKeyRead == "Erreur de lecture de la cle de verification: "

\* throw new Error(`${prefix}${error.message}`)
Wrap(prefix, e) == NewError(<<prefix>> \o e.msg)


\* ------------------------------------------------------------------- state
VARIABLES
    inv,      \* per invocation: position, arguments, locals and history
    tmpfs,    \* the temp directory: path -> file (existence, writer, size)
    disk,     \* the artifact files that exist
    clock,    \* Date.now()
    fsys,         \* the application's directories: the <<dir, name>> that exist
    fsOps,        \* how many times the environment changed fsys
    currentFiles, \* ZKPLicenseApp.currentFiles (single-circuit application)
    report,       \* what the last checkRequiredFiles printed
    circuits,     \* ZKPLicenseApp.circuits (multi-circuit application)
    batch,        \* the standalone ProofVerifier and its running batchVerify call
    commit,       \* LicenseVerificationSystem / WitnessGenerator: the commitment calls made
    lic,          \* a caller's userData object and the generation calls made on it
    calc          \* a pure function's input and the results of applying it

genVars == <<inv, tmpfs, disk, clock>>
appVars == <<fsys, fsOps, currentFiles, report, circuits>>
libVars == <<batch, commit, lic, calc>>
vars == <<genVars, appVars, libVars>>

\* Temporary paths: input_<ts>.json / witness_<ts>.wtns and the fixed test names.
TempPaths ==
    ({"input", "witness"} \X (1..MaxClock)) \cup {<<"test_input", 0>>, <<"test_witness", 0>>}
Absent == [ex |-> FALSE, owner |-> 0, size |-> 0]
File(i, n) == [ex |-> TRUE, owner |-> i, size |-> n]

\* A JavaScript value as far as the verifier inspects it: its type, its length
\* and the type of its first element; rest is the type of its other elements.
JUndef == [t |-> "undef", len |-> 0, first |-> "none", rest |-> "none"]
JArrOf(n, f, g) == [t |-> "arr", len |-> n, first |-> f, rest |-> g]
JArr(n, f) == JArrOf(n, f, f)
Truthy(v) == v.t \notin {"undef", "null"}

\* A publicSignals value: undefined, or an array of strings and numbers.
SUndef == [t |-> "undef", els |-> <<>>]
SArr(els) == [t |-> "arr", els |-> els]
SigStr(cs) == [t |-> "str", s |-> cs, n |-> 0]
SigNum(n) == [t |-> "num", s |-> <<>>, n |-> n]
SigNull == [t |-> "null", s |-> <<>>, n |-> 0]
\* A publicSignals value that is truthy and no array (a string).
SNotArray == [t |-> "str", els |-> <<>>]

GoodProof == [pi_a |-> JArr(3, "str"), pi_b |-> JArr(3, "arr"), pi_c |-> JArr(3, "str")]
NoProof == [pi_a |-> JUndef, pi_b |-> JUndef, pi_c |-> JUndef]
Proofs ==
    {GoodProof, [GoodProof EXCEPT !.pi_b = JUndef], [GoodProof EXCEPT !.pi_a = JArr(2, "str")],
     [GoodProof EXCEPT !.pi_b = JArr(3, "str")], [GoodProof EXCEPT !.pi_c = JArr(4, "str")],
     [GoodProof EXCEPT !.pi_b = JArrOf(3, "arr", "str")], [GoodProof EXCEPT !.pi_a = JUndef],
     [GoodProof EXCEPT !.pi_c = JUndef]}
SignalValues ==
    {SUndef, SArr(<<>>), SArr(<<SigStr(<<49>>)>>), SArr(<<SigStr(<<48>>)>>),
     SArr(<<SigNum(1)>>), SArr(<<SigStr(<<49>>), SigStr(<<120>>)>>),
     SArr(<<SigNum(-1)>>), SArr(<<SigStr(<<49>>), SigNull>>), SNotArray}

\* proofInput: a container {proof, publicSignals}, a bare proof, or no object.
Container(pr, sg) == [t |-> "obj", hasProof |-> TRUE, proof |-> pr, publicSignals |-> sg, bare |-> NoProof]
Bare(pr) == [t |-> "obj", hasProof |-> FALSE, proof |-> NoProof, publicSignals |-> SUndef, bare |-> pr]
NotObject == [t |-> "null", hasProof |-> FALSE, proof |-> NoProof, publicSignals |-> SUndef, bare |-> NoProof]
Payloads ==
    {Container(pr, sg) : pr \in Proofs, sg \in {SUndef, SArr(<<SigStr(<<49>>)>>)}}
        \cup {Container(GoodProof, sg) : sg \in SignalValues}
        \cup {Bare(pr) : pr \in Proofs}
        \cup {NotObject}

\* What the caller may pass as publicSignalsInput.
SuppliedSignals == {SUndef, SArr(<<SigStr(<<49>>)>>), SNotArray}
\* The states in which a read of the verification key file can find it.
KeyStates == {"ok", "unparsable", "incomplete"}
NoVerifyInput == [payload |-> NotObject, supplied |-> SUndef, vk |-> "ok", vk2 |-> "ok"]
NoVerifyResult == [valid |-> FALSE, publicSignals |-> SUndef, hasLicenseA |-> FALSE]

NoInfo == [name |-> <<>>, surname |-> <<>>, dob |-> <<>>, license |-> <<>>]
NoResult == [kind |-> "none", sig |-> SUndef, flag |-> FALSE, valid |-> FALSE, info |-> NoInfo]
NoObs == [exists |-> "unknown", size |-> -1]
IdleInv ==
    [pc |-> "idle", op |-> "none", input |-> BaseInput, files |-> FullBundle,
     k |-> 0, ts |-> 0, child |-> "none", orphan |-> FALSE, err |-> NoErr, origErr |-> NoErr,
     werr |-> NoErr, cause |-> "none", obs |-> NoObs, trace |-> <<>>,
     result |-> NoResult, vin |-> NoVerifyInput, vres |-> NoVerifyResult]

Ev(stage, detail) == <<stage, detail>>
Log(r, stage, detail) == [r EXCEPT !.trace = Append(r.trace, Ev(stage, detail))]

\* --------------------------------------------------------- pure functions
IsDigit(c) == c \in 48..57

\* /^\d{4}-\d{2}-\d{2}$/.test(s)
DateRegex(s) ==
    /\ Len(s) = 10
    /\ s[5] = 45 /\ s[8] = 45
    /\ \A p \in {1, 2, 3, 4, 6, 7, 9, 10} : IsDigit(s[p])

\* The number written by the digits of s at positions a..b.
RECURSIVE DigitsValue(_, _, _)
DigitsValue(s, a, b) ==
    IF b < a THEN 0 ELSE DigitsValue(s, a, b - 1) * 10 + (s[b] - 48)
IsLeapYear(y) == (y % 4 = 0 /\ y % 100 # 0) \/ y % 400 = 0
DaysInMonth(y, m) ==
    IF m = 2 THEN (IF IsLeapYear(y) THEN 29 ELSE 28)
    ELSE IF m \in {4, 6, 9, 11} THEN 30 ELSE 31

\* new Date("YYYY-MM-DD"): the date-only form is UTC midnight of that day. A
\* month outside 1..12 or a day outside 1..31 gives an invalid Date. For a day
\* past the end of its month the language leaves the result to the engine: V8
\* carries the extra days into the next month, a strict engine gives an
\* invalid Date.
Engines == {"v8", "strict"}
InvalidDate == [nan |-> TRUE, y |-> 0, m |-> 0, d |-> 0]
NewDate(s, engine) ==
    LET y == DigitsValue(s, 1, 4)
        m == DigitsValue(s, 6, 7)
        d == DigitsValue(s, 9, 10)
    IN  IF m \notin 1..12 \/ d \notin 1..31 THEN InvalidDate
        ELSE IF d <= DaysInMonth(y, m) THEN [nan |-> FALSE, y |-> y, m |-> m, d |-> d]
        ELSE IF engine = "strict" THEN InvalidDate
        ELSE [nan |-> FALSE, y |-> y, m |-> m + 1, d |-> d - DaysInMonth(y, m)]

\* getFullYear(), getMonth() + 1, getDate(): the fields of the instant in the
\* local time zone. West of Greenwich UTC midnight is still the day before;
\* at Greenwich and east of it, it is the same day.
TimeZones == {"west", "utc", "east"}
LocalFields(date, tz) ==
    IF tz # "west" THEN date
    ELSE IF date.d > 1 THEN [date EXCEPT !.d = date.d - 1]
    ELSE IF date.m > 1
         THEN [date EXCEPT !.m = date.m - 1, !.d = DaysInMonth(date.y, date.m - 1)]
    ELSE [date EXCEPT !.y = date.y - 1, !.m = 12, !.d = 31]

\* n written with at least w decimal digits.
RECURSIVE PadDigits(_, _)
PadDigits(n, w) ==
    IF w = 0 THEN <<>> ELSE Append(PadDigits(n \div 10, w - 1), 48 + (n % 10))

\* date.toISOString().slice(0, 10)
IsoDay(date) ==
    PadDigits(date.y, 4) \o <<45>> \o PadDigits(date.m, 2) \o <<45>> \o PadDigits(date.d, 2)

\* utils validateDate(input): true, or the message of what is wrong.
validateDate(input, tz, engine) ==
    IF ~DateRegex(input) THEN "Format de date invalide. Utilisez YYYY-MM-DD"
    ELSE LET date == NewDate(input, engine)
             loc == LocalFields(date, tz)
         IN  IF \/ date.nan
                \/ loc.y # DigitsValue(input, 1, 4)
                \/ loc.m - 1 # DigitsValue(input, 6, 7) - 1
                \/ loc.d # DigitsValue(input, 9, 10)
             THEN "Date invalide"
             ELSE "true"

\* WitnessGenerator.isValidDate(dateString)
isValidDate(dateString, engine) ==
    IF ~DateRegex(dateString) THEN FALSE
    ELSE LET date == NewDate(dateString, engine)
         IN  ~date.nan /\ IsoDay(date) = dateString

\* new Array(length).fill(0), then the first min(str.length, length) codes
stringToAsciiArray(str, length) ==
    [p \in 1..length |-> IF p <= Len(str) THEN str[p] ELSE 0]

validateInputs(u) ==
    (IF u.name = <<>> \/ Len(u.name) > NameWidth THEN <<"Nom invalide">> ELSE <<>>)
        \o (IF u.surname = <<>> \/ Len(u.surname) > NameWidth
            THEN <<"Prenom invalide">> ELSE <<>>)
        \o (IF ~DateRegex(u.dob) THEN <<"Date de naissance invalide">> ELSE <<>>)
        \o (IF u.license \notin {<<65>>, <<66>>, <<67>>}
            THEN <<"Type de permis invalide">> ELSE <<>>)

\* The rejection of exec() and of the checks that follow it, as the catch block
\* of generateWitnessWithExternalScript rethrows it.
ClassifyWitnessError(e) ==
    IF e.code = "ENOENT" THEN NewError(<<MsgNodeMissing>>)
    ELSE IF e.signal = "SIGTERM" THEN NewError(<<MsgTimeout>>)
    ELSE IF e.code \in {"EMFILE", "ENFILE"} THEN NewError(<<MsgTooManyFiles>>)
    ELSE NewError(<<PfxScript>> \o e.msg \o <<SfxScript>>)

InputFile(r) == IF r.op = "testWitnessScript" THEN <<"test_input", 0>> ELSE <<"input", r.ts>>
WitnessFile(r) ==
    IF r.op = "testWitnessScript" THEN <<"test_witness", 0>> ELSE <<"witness", r.ts>>

ReqOrder == <<"wasm", "zkey", "witness">>

MsgMissingFile(key, path) ==
    <<"Fichier ", key, " requis mais introuvable: ", IF path = Null THEN "non specifie" ELSE path>>

\* Mutant of ThrowFromGenerate: the catch block rethrows the error it caught.
ThrowFromGenerateRethrow(r, e) ==
    [r EXCEPT !.pc = "thrown", !.err = e,
              !.origErr = IF r.origErr = NoErr THEN e ELSE r.origErr]

\* generateProof's catch: the error leaves as a new, prefixed Error.
ThrowFromGenerate(r, e) ==
    [r EXCEPT !.pc = "thrown", !.err = Wrap(PfxGenerate, e),
              !.origErr = IF r.origErr = NoErr THEN e ELSE r.origErr]

\* generateProofWithExternalScript's outer catch, then generateProof's catch.
ThrowFromExternal(r, e) ==
    [r EXCEPT !.pc = "thrown", !.err = Wrap(PfxGenerate, Wrap(PfxExternal, e)),
              !.origErr = IF r.origErr = NoErr THEN e ELSE r.origErr]

\* An error inside the inner try: remembered, cleanup runs first.
FailToCleanup(r, e, orig) ==
    [r EXCEPT !.pc = "cl_probe1", !.err = e,
              !.origErr = IF r.origErr = NoErr THEN orig ELSE r.origErr]

\* Mutant of AfterCleanup: after a failure the promise is never settled.
AfterCleanupPending(r) ==
    IF r.err = NoErr THEN [r EXCEPT !.pc = "returned"] ELSE [r EXCEPT !.pc = "pending"]

\* What follows the last await of cleanupTempFiles: return, or rethrow.
AfterCleanup(r) ==
    IF r.err = NoErr THEN [r EXCEPT !.pc = "returned"]
    ELSE IF r.op = "generateProof"
         THEN [r EXCEPT !.pc = "thrown", !.err = Wrap(PfxGenerate, Wrap(PfxExternal, r.err))]
         ELSE [r EXCEPT !.pc = "thrown"]

\* ---------------------------------------------------------------- actions
Set(i, r) == inv' = [inv EXCEPT ![i] = r]

\* Date.now() advances between two reads, or does not.
Tick ==
    /\ clock < MaxClock
    /\ clock' = clock + 1
    /\ UNCHANGED <<inv, tmpfs, disk, appVars, libVars>>

\* generateProof(userInput, files) up to its first await.
generateProof(i, U, F) ==
    /\ inv[i].pc = "idle"
    /\ \E u \in U, f \in F :
        LET r0 == Log([inv[i] EXCEPT !.op = "generateProof", !.input = u, !.files = f],
                      "validate", "")
            errs == validateInputs(u)
        IN  Set(i, IF errs # <<>>
                   THEN ThrowFromGenerate(r0, NewError(<<MsgValidation>> \o errs))
                   ELSE IF f.witness = Null
                   THEN ThrowFromGenerate(r0, NewError(<<MsgNoScript>>))
                   ELSE [r0 EXCEPT !.pc = "gp_probe"])
    /\ UNCHANGED <<tmpfs, disk, clock, appVars, libVars>>

\* The requiredFiles loop of generateProofWithExternalScript from slot number k
\* on, up to the next await: an unset path throws without a probe.
EnterRequired(r, k) ==
    LET key == ReqOrder[k]
    IN  IF r.files[key] = Null
        THEN ThrowFromExternal(r, NewError(MsgMissingFile(key, Null)))
        ELSE [r EXCEPT !.pc = "ws_probe", !.k = k]

\* await fs.pathExists(files.witness) resolves; the inputs are encoded and
\* generateProofWithExternalScript runs up to its first await.
gpProbeWitness(i) ==
    /\ inv[i].pc = "gp_probe"
    /\ LET r0 == Log(inv[i], "probe", "witness")
       IN  Set(i, IF r0.files.witness \notin disk
                  THEN ThrowFromGenerate(r0, NewError(<<MsgNoScript>>))
                  ELSE IF ~DateRegex(r0.input.dob)
                  THEN ThrowFromGenerate(Log(r0, "encode", ""),
                                         NewError(<<"Format de date invalide. Utilisez YYYY-MM-DD">>))
                  ELSE EnterRequired(Log(r0, "encode", ""), 1))
    /\ UNCHANGED <<tmpfs, disk, clock, appVars, libVars>>

\* Mutant of wsProbe: the result of fs.pathExists is ignored.
wsProbeIgnoringResult(i) ==
    /\ inv[i].pc = "ws_probe"
    /\ LET r0 == Log(inv[i], "probe", ReqOrder[inv[i].k])
       IN  Set(i, IF r0.k < Len(ReqOrder)
                  THEN EnterRequired(r0, r0.k + 1)
                  ELSE [r0 EXCEPT !.pc = "ensureDir"])
    /\ UNCHANGED <<tmpfs, disk, clock, appVars, libVars>>

\* await fs.pathExists(filePath) of the requiredFiles loop resolves.
wsProbe(i) ==
    /\ inv[i].pc = "ws_probe"
    /\ LET key == ReqOrder[inv[i].k]
           r0 == Log(inv[i], "probe", key)
       IN  Set(i, IF r0.files[key] \notin disk
                  THEN ThrowFromExternal(r0, NewError(MsgMissingFile(key, r0.files[key])))
                  ELSE IF r0.k < Len(ReqOrder)
                  THEN EnterRequired(r0, r0.k + 1)
                  ELSE [r0 EXCEPT !.pc = "ensureDir"])
    /\ UNCHANGED <<tmpfs, disk, clock, appVars, libVars>>

\* testWitnessScript(files) up to its first await (fs.ensureDir).
testWitnessScript(i, F) ==
    /\ inv[i].pc = "idle"
    /\ \E f \in F :
        Set(i, [inv[i] EXCEPT !.op = "testWitnessScript", !.files = f, !.pc = "ensureDir"])
    /\ UNCHANGED <<tmpfs, disk, clock, appVars, libVars>>

\* await fs.ensureDir(tempDir) resolves or rejects; the paths are then built
\* from Date.now() (generateProofWithExternalScript) or are fixed (test).
ensureDir(i) ==
    /\ inv[i].pc = "ensureDir"
    /\ LET r0 == Log(inv[i], "ensureDir", "")
           e == SysError("EACCES: permission denied, mkdir", "EACCES", "none")
       IN  \/ Set(i, [r0 EXCEPT !.pc = "writeInput", !.ts = clock])
           \/ Set(i, IF r0.op = "generateProof"
                     THEN ThrowFromExternal(r0, e)
                     ELSE [r0 EXCEPT !.pc = "thrown", !.err = e, !.origErr = e])
    /\ UNCHANGED <<tmpfs, disk, clock, appVars, libVars>>

\* generateWitnessWithExternalScript rejects: its catch block has rethrown e0
\* as a new Error, which the caller's catch block holds while it cleans up.
WitnessFail(r, e0, cause) ==
    FailToCleanup([r EXCEPT !.werr = ClassifyWitnessError(e0), !.cause = cause],
                  ClassifyWitnessError(e0), e0)

\* await fs.writeJson(inputFile, input) resolves, and exec() starts the witness
\* subprocess; or the write rejects, leaving nothing or a partial file.
writeInput(i) ==
    /\ inv[i].pc = "writeInput"
    /\ LET r0 == Log(inv[i], "writeInput", "")
           e == SysError("EIO: i/o error, write", "EIO", "none")
       IN  \/ /\ tmpfs' = [tmpfs EXCEPT ![InputFile(r0)] = File(i, 1)]
              /\ IF r0.files.witness = Null
                 THEN \* path.dirname(null) throws inside the try block
                      Set(i, WitnessFail(r0, [JsError("TypeError", "The path argument must be of type string")
                                                  EXCEPT !.code = "ERR_INVALID_ARG_TYPE"], "exit"))
                 ELSE \E c \in {"running", "ENOENT", "EMFILE", "ENFILE"} :
                        Set(i, [Log(r0, "exec", "") EXCEPT !.pc = "exec", !.child = c])
           \/ /\ \/ tmpfs' = tmpfs
                 \/ tmpfs' = [tmpfs EXCEPT ![InputFile(r0)] = File(i, 0)]
              /\ Set(i, FailToCleanup(r0, e, e))
    /\ UNCHANGED <<disk, clock, appVars, libVars>>

\* The witness subprocess writes its output file (possibly empty).
ChildWrite(i) ==
    /\ inv[i].child = "running"
    /\ inv[i].files.witness \in disk
    /\ \E n \in {0, 1} : tmpfs' = [tmpfs EXCEPT ![WitnessFile(inv[i])] = File(i, n)]
    /\ UNCHANGED <<inv, disk, clock, appVars, libVars>>

\* The witness subprocess exits, with status zero or not.
ChildExit(i) ==
    /\ inv[i].child = "running"
    /\ \E c \in {"exit0", "exitErr"} :
        /\ c = "exit0" => inv[i].files.witness \in disk
        /\ Set(i, [inv[i] EXCEPT !.child = c])
    /\ UNCHANGED <<tmpfs, disk, clock, appVars, libVars>>

\* exec's timeout (60000 ms) fires: SIGTERM is sent to the process exec
\* spawned, which is the shell that runs the command line. The node process
\* started by that shell dies with it or is left running, as the platform's
\* shell decides.
Timeout(i) ==
    /\ inv[i].child = "running"
    /\ \E o \in BOOLEAN : Set(i, [inv[i] EXCEPT !.child = "killed", !.orphan = o])
    /\ UNCHANGED <<tmpfs, disk, clock, appVars, libVars>>

\* The witness script left running by a killed shell writes its output file.
OrphanWrite(i) ==
    /\ inv[i].orphan
    /\ inv[i].files.witness \in disk
    /\ \E n \in {0, 1} : tmpfs' = [tmpfs EXCEPT ![WitnessFile(inv[i])] = File(i, n)]
    /\ UNCHANGED <<inv, disk, clock, appVars, libVars>>

\* The witness script left running by a killed shell exits.
OrphanExit(i) ==
    /\ inv[i].orphan
    /\ Set(i, [inv[i] EXCEPT !.orphan = FALSE])
    /\ UNCHANGED <<tmpfs, disk, clock, appVars, libVars>>

\* Mutant of ExecDone: a failed subprocess is started once more.
ExecDoneRetry(i) ==
    /\ inv[i].pc = "exec"
    /\ inv[i].child # "running"
    /\ LET r0 == inv[i]
           c == r0.child
           execs == Cardinality({p \in 1..Len(r0.trace) : r0.trace[p][1] = "exec"})
       IN  Set(i, CASE c = "exit0" -> [r0 EXCEPT !.pc = "checkOut"]
                    [] c = "exitErr" /\ execs < 2 -> [Log(r0, "exec", "") EXCEPT !.child = "running"]
                    [] c = "exitErr" -> WitnessFail(r0, SysError("Command failed", "1", "none"), "exit")
                    [] c = "killed" -> WitnessFail(r0, SysError("Command failed", "none", "SIGTERM"), "timeout")
                    [] c = "ENOENT" -> WitnessFail(r0, SysError("spawn ENOENT", "ENOENT", "none"), "notfound")
                    [] OTHER -> WitnessFail(r0, SysError("spawn " \o c, c, "none"), "toomanyfiles"))
    /\ UNCHANGED <<tmpfs, disk, clock, appVars, libVars>>

\* exec's callback: the promise resolves (exit status zero) or rejects.
ExecDone(i) ==
    /\ inv[i].pc = "exec"
    /\ inv[i].child # "running"
    /\ LET r0 == inv[i]
           c == r0.child
       IN  Set(i, CASE c = "exit0" -> [r0 EXCEPT !.pc = "checkOut"]
                    [] c = "exitErr" -> WitnessFail(r0, SysError("Command failed", "1", "none"), "exit")
                    [] c = "killed" -> WitnessFail(r0, SysError("Command failed", "none", "SIGTERM"), "timeout")
                    [] c = "ENOENT" -> WitnessFail(r0, SysError("spawn ENOENT", "ENOENT", "none"), "notfound")
                    [] OTHER -> WitnessFail(r0, SysError("spawn " \o c, c, "none"), "toomanyfiles"))
    /\ UNCHANGED <<tmpfs, disk, clock, appVars, libVars>>

\* await fs.pathExists(outputFile) resolves.
CheckOut(i) ==
    /\ inv[i].pc = "checkOut"
    /\ LET f == tmpfs[WitnessFile(inv[i])]
           r0 == Log([inv[i] EXCEPT !.obs.exists = IF f.ex THEN "yes" ELSE "no"], "checkOut", "")
       IN  Set(i, IF ~f.ex
                  THEN WitnessFail(r0, NewError(<<MsgNoWitness>>), "absent")
                  ELSE [r0 EXCEPT !.pc = "statOut"])
    /\ UNCHANGED <<tmpfs, disk, clock, appVars, libVars>>

\* Mutant of StatOut: the size of the output file is not looked at.
StatOutIgnoringSize(i) ==
    /\ inv[i].pc = "statOut"
    /\ LET f == tmpfs[WitnessFile(inv[i])]
           r0 == [inv[i] EXCEPT !.obs.size = IF f.ex THEN f.size ELSE -1]
       IN  Set(i, IF ~f.ex
                  THEN WitnessFail(r0, SysError("ENOENT: no such file or directory, stat",
                                                "ENOENT", "none"), "vanished")
                  ELSE [r0 EXCEPT !.pc = IF r0.op = "generateProof"
                                         THEN "readWitness" ELSE "t_exists"])
    /\ UNCHANGED <<tmpfs, disk, clock, appVars, libVars>>

\* await fs.stat(outputFile) resolves (or rejects: the file is gone again).
StatOut(i) ==
    /\ inv[i].pc = "statOut"
    /\ LET f == tmpfs[WitnessFile(inv[i])]
           r0 == [inv[i] EXCEPT !.obs.size = IF f.ex THEN f.size ELSE -1]
       IN  Set(i, IF ~f.ex
                  THEN WitnessFail(r0, SysError("ENOENT: no such file or directory, stat",
                                                "ENOENT", "none"), "vanished")
                  ELSE IF f.size = 0
                  THEN WitnessFail(r0, NewError(<<MsgEmptyWitness>>), "empty")
                  ELSE [r0 EXCEPT !.pc = IF r0.op = "generateProof"
                                         THEN "readWitness" ELSE "t_exists"])
    /\ UNCHANGED <<tmpfs, disk, clock, appVars, libVars>>

\* await fs.readFile(witnessFile) resolves or rejects.
ReadWitness(i) ==
    /\ inv[i].pc = "readWitness"
    /\ LET f == tmpfs[WitnessFile(inv[i])]
           r0 == Log(inv[i], "readWitness", "")
           enoent == SysError("ENOENT: no such file or directory, open", "ENOENT", "none")
           eio == SysError("EIO: i/o error, read", "EIO", "none")
       IN  \/ /\ f.ex
              /\ Set(i, [r0 EXCEPT !.pc = "readZkey"])
           \/ Set(i, IF f.ex THEN FailToCleanup(r0, eio, eio)
                     ELSE FailToCleanup(r0, enoent, enoent))
    /\ UNCHANGED <<tmpfs, disk, clock, appVars, libVars>>

\* await fs.readFile(files.zkey) resolves or rejects.
ReadZkey(i) ==
    /\ inv[i].pc = "readZkey"
    /\ LET r0 == Log(inv[i], "readZkey", "")
           enoent == SysError("ENOENT: no such file or directory, open", "ENOENT", "none")
       IN  Set(i, IF r0.files.zkey \in disk
                  THEN [r0 EXCEPT !.pc = "prove"]
                  ELSE FailToCleanup(r0, enoent, enoent))
    /\ UNCHANGED <<tmpfs, disk, clock, appVars, libVars>>

\* input_info.hasLicenseA: publicSignals[0] === '1'
genHasLicenseA(publicSignals) ==
    publicSignals.els[1].t = "str" /\ publicSignals.els[1].s = <<49>>

\* The result object of generateProofWithExternalScript: proof, publicSignals
\* and input_info (the timestamp and the metadata, which do not depend on the
\* input, are left out).
BuildResult(originalInput, publicSignals) ==
    [kind |-> "proof", sig |-> publicSignals, flag |-> genHasLicenseA(publicSignals),
     valid |-> FALSE,
     info |-> [name |-> originalInput.name, surname |-> originalInput.surname,
               dob |-> originalInput.dob, license |-> originalInput.license]]

\* await snarkjs.groth16.prove(zkeyBuffer, witnessBuffer) resolves or rejects;
\* the result object is built and cleanupTempFiles starts.
Prove(i) ==
    /\ inv[i].pc = "prove"
    /\ LET r0 == Log(inv[i], "prove", "")
           e == NewError(<<"snarkjs: witness does not satisfy the circuit">>)
       IN  \/ \E publicSignals \in {SArr(<<SigStr(<<48>>)>>), SArr(<<SigStr(<<49>>)>>)} :
                Set(i, [r0 EXCEPT !.pc = "cl_probe1",
                                  !.result = BuildResult(r0.input, publicSignals)])
           \/ Set(i, FailToCleanup(r0, e, e))
    /\ UNCHANGED <<tmpfs, disk, clock, appVars, libVars>>

\* testWitnessScript: const exists = await fs.pathExists(testWitnessFile).
TestExists(i) ==
    /\ inv[i].pc = "t_exists"
    /\ Set(i, [inv[i] EXCEPT !.pc = "cl_probe1",
                             !.result = [NoResult EXCEPT
                                            !.kind = "bool",
                                            !.flag = tmpfs[WitnessFile(inv[i])].ex]])
    /\ UNCHANGED <<tmpfs, disk, clock, appVars, libVars>>

\* cleanupTempFiles([inputFile, witnessFile]): the file handled at each position.
CleanupTarget(r) ==
    IF r.pc \in {"cl_probe1", "cl_rm1"} THEN InputFile(r) ELSE WitnessFile(r)

\* cleanupTempFiles: await fs.pathExists(file) resolves.
CleanupProbe(i) ==
    /\ inv[i].pc \in {"cl_probe1", "cl_probe2"}
    /\ LET r0 == Log(inv[i], "cleanup", inv[i].pc)
           ex == tmpfs[CleanupTarget(r0)].ex
       IN  Set(i, CASE r0.pc = "cl_probe1" /\ ex -> [r0 EXCEPT !.pc = "cl_rm1"]
                    [] r0.pc = "cl_probe1" /\ ~ex -> [r0 EXCEPT !.pc = "cl_probe2"]
                    [] r0.pc = "cl_probe2" /\ ex -> [r0 EXCEPT !.pc = "cl_rm2"]
                    [] OTHER -> AfterCleanup(r0))
    /\ UNCHANGED <<tmpfs, disk, clock, appVars, libVars>>

\* cleanupTempFiles: await fs.remove(file) resolves.
CleanupRemove(i) ==
    /\ inv[i].pc \in {"cl_rm1", "cl_rm2"}
    /\ tmpfs' = [tmpfs EXCEPT ![CleanupTarget(inv[i])] = Absent]
    /\ Set(i, IF inv[i].pc = "cl_rm1" THEN [inv[i] EXCEPT !.pc = "cl_probe2"]
              ELSE AfterCleanup(inv[i]))
    /\ UNCHANGED <<disk, clock, appVars, libVars>>

\* ------------------------------------------------------------ ProofVerifier
Extracted(pr, sg) == [err |-> NoErr, proof |-> pr, publicSignals |-> sg]
ExtractFailed(m) == [err |-> NewError(<<m>>), proof |-> NoProof, publicSignals |-> SUndef]

\* Mutant of extractProofData: a bare proof without signals is given ["1"].
extractProofDataGuessing(proofInput, publicSignalsInput) ==
    IF proofInput.t = "obj"
    THEN IF proofInput.hasProof /\ proofInput.publicSignals.t # "undef"
         THEN Extracted(proofInput.proof, proofInput.publicSignals)
         ELSE IF Truthy(proofInput.bare.pi_a) /\ Truthy(proofInput.bare.pi_b)
                    /\ Truthy(proofInput.bare.pi_c)
         THEN IF publicSignalsInput.t = "arr"
              THEN Extracted(proofInput.bare, publicSignalsInput)
              ELSE Extracted(proofInput.bare, SArr(<<SigStr(<<49>>)>>))
         ELSE ExtractFailed("Format de preuve non reconnu.")
    ELSE ExtractFailed("Donnees de preuve invalides")

extractProofData(proofInput, publicSignalsInput) ==
    IF proofInput.t = "obj"
    THEN IF proofInput.hasProof /\ proofInput.publicSignals.t # "undef"
         THEN Extracted(proofInput.proof, proofInput.publicSignals)
         ELSE IF Truthy(proofInput.bare.pi_a) /\ Truthy(proofInput.bare.pi_b)
                    /\ Truthy(proofInput.bare.pi_c)
         THEN IF publicSignalsInput.t = "arr"
              THEN Extracted(proofInput.bare, publicSignalsInput)
              ELSE Extracted(proofInput.bare, SUndef)
         ELSE ExtractFailed("Format de preuve non reconnu.")
    ELSE ExtractFailed("Donnees de preuve invalides")

\* The message validateProofFormat throws, "" when it returns true.
validateProofFormat(proof) ==
    IF ~Truthy(proof.pi_a) THEN "Champ manquant dans la preuve: pi_a"
    ELSE IF ~Truthy(proof.pi_b) THEN "Champ manquant dans la preuve: pi_b"
    ELSE IF ~Truthy(proof.pi_c) THEN "Champ manquant dans la preuve: pi_c"
    ELSE IF proof.pi_a.t # "arr" \/ proof.pi_a.len # 3 THEN "Format invalide pour pi_a"
    ELSE IF proof.pi_b.t # "arr" \/ proof.pi_b.len # 3 \/ proof.pi_b.first # "arr"
    THEN "Format invalide pour pi_b"
    ELSE IF proof.pi_c.t # "arr" \/ proof.pi_c.len # 3 THEN "Format invalide pour pi_c"
    ELSE ""

\* /^\d+$/.test(s)
DigitsRegex(cs) == Len(cs) > 0 /\ \A p \in 1..Len(cs) : IsDigit(cs[p])

\* The message validatePublicSignals throws, "" when it returns true.
validatePublicSignals(signals) ==
    IF signals.t = "undef" THEN "Signaux publics manquants"
    ELSE IF signals.t # "arr" THEN "Les signaux publics doivent etre un tableau"
    ELSE IF Len(signals.els) = 0 THEN "Aucun signal public fourni"
    ELSE IF \E p \in 1..Len(signals.els) : signals.els[p].t \notin {"str", "num"}
    THEN "Signal public doit etre un nombre ou une chaine numerique"
    ELSE IF \E p \in 1..Len(signals.els) :
                signals.els[p].t = "str" /\ ~DigitsRegex(signals.els[p].s)
    THEN "Signal public contient une chaine non numerique"
    ELSE ""

\* hasLicenseA: signals[0] === '1' || signals[0] === 1
parsePublicSignals(signals) ==
    \/ signals.els[1].t = "str" /\ signals.els[1].s = <<49>>
    \/ signals.els[1].t = "num" /\ signals.els[1].n = 1

\* Mutant of validateProofConsistency: the fields of the key are not looked at.
validateProofConsistencyAnyKey(pr, sg, vkeyPath, vk) ==
    LET inner ==
            IF validateProofFormat(pr) # "" THEN NewError(<<validateProofFormat(pr)>>)
            ELSE IF validatePublicSignals(sg) # "" THEN NewError(<<validatePublicSignals(sg)>>)
            ELSE IF vkeyPath \notin disk
            THEN NewError(<<"Fichier de cle de verification non trouve">>)
            ELSE IF vk = "unparsable"
            THEN Wrap(PfxKeyRead, JsError("SyntaxError", "Unexpected token in JSON"))
            ELSE NoErr
    IN  IF inner = NoErr THEN NoErr ELSE Wrap(PfxValidation, inner)

\* validateProofConsistency(proof, publicSignals, vkeyPath) with the key file in
\* state vk ("ok", "unparsable", "incomplete"): the error it throws, or NoErr.
validateProofConsistency(pr, sg, vkeyPath, vk) ==
    LET inner ==
            IF validateProofFormat(pr) # "" THEN NewError(<<validateProofFormat(pr)>>)
            ELSE IF validatePublicSignals(sg) # "" THEN NewError(<<validatePublicSignals(sg)>>)
            ELSE IF vkeyPath \notin disk
            THEN NewError(<<"Fichier de cle de verification non trouve">>)
            ELSE IF vk = "unparsable"
            THEN Wrap(PfxKeyRead, JsError("SyntaxError", "Unexpected token in JSON"))
            ELSE IF vk = "incomplete"
            THEN Wrap(PfxKeyRead, NewError(<<"Structure de cle de verification invalide">>))
            ELSE NoErr
    IN  IF inner = NoErr THEN NoErr ELSE Wrap(PfxValidation, inner)

\* The innermost error of a failed validateProofConsistency.
ValidationOrigin(pr, sg, vkeyPath, vk) ==
    IF validateProofFormat(pr) # "" THEN NewError(<<validateProofFormat(pr)>>)
    ELSE IF validatePublicSignals(sg) # "" THEN NewError(<<validatePublicSignals(sg)>>)
    ELSE IF vkeyPath \notin disk THEN NewError(<<"Fichier de cle de verification non trouve">>)
    ELSE IF vk = "unparsable" THEN JsError("SyntaxError", "Unexpected token in JSON")
    ELSE NewError(<<"Structure de cle de verification invalide">>)

\* verifyProof's catch: the error leaves as a new, prefixed Error.
ThrowFromVerify(r, e, orig) ==
    [r EXCEPT !.pc = "thrown", !.err = Wrap(PfxVerify, e), !.origErr = orig]

\* ProofVerifier.verifyProof(proofInput, publicSignalsInput, vkeyPath), whole:
\* validateProofConsistency reads the key file in state vk, verifyProof reads it
\* again in state vk2, the backend answers or throws.
verifyProof(i) ==
    /\ inv[i].pc = "idle"
    /\ \E p \in Payloads, si \in SuppliedSignals, vk \in KeyStates, vk2 \in KeyStates,
          backend \in {"true", "false", "throws"} :
        LET vkeyPath == PathOf("vkey")
            r0 == Log([inv[i] EXCEPT !.op = "verifyProof",
                                     !.vin = [payload |-> p, supplied |-> si,
                                              vk |-> vk, vk2 |-> vk2]], "extract", "")
            x == extractProofData(p, si)
            r1 == Log(r0, "validate", "")
            v == validateProofConsistency(x.proof, x.publicSignals, vkeyPath, vk)
            r15 == Log(r1, "readVkey", "")
            r2 == Log(r15, "backend", backend)
            be == NewError(<<"snarkjs: invalid verification key">>)
            re == JsError("SyntaxError", "Unexpected token in JSON")
        IN  Set(i, IF x.err # NoErr THEN ThrowFromVerify(r0, x.err, x.err)
                   ELSE IF v # NoErr
                   THEN ThrowFromVerify(r1, v, ValidationOrigin(x.proof, x.publicSignals,
                                                                 vkeyPath, vk))
                   ELSE IF vk2 = "unparsable" THEN ThrowFromVerify(r15, re, re)
                   ELSE IF backend = "throws" THEN ThrowFromVerify(r2, be, be)
                   ELSE [r2 EXCEPT !.pc = "returned",
                                   !.result = [NoResult EXCEPT
                                                  !.kind = "verify",
                                                  !.flag = parsePublicSignals(x.publicSignals),
                                                  !.valid = (backend = "true")],
                                   !.vres = [valid |-> (backend = "true"),
                                             publicSignals |-> x.publicSignals,
                                             hasLicenseA |-> parsePublicSignals(x.publicSignals)]])
    /\ UNCHANGED <<tmpfs, disk, clock, appVars, libVars>>

\* ------------------------------------------------------------ ZKPLicenseApp
MaxFsOps == 2

NoPath == <<>>
AppDir == "."
Circuits == {"license", "age18"}
basePath(c) == IF c = "license" THEN "../data/proof_license" ELSE "../data/Is18"

\* app.js, checkRequiredFiles: const filesToCheck = [...]
filesToCheck ==
    <<[name |-> "circuit.wasm", key |-> "wasm",
       alt |-> <<"LicenseA.wasm", "LicenseB.wasm", "LicenseC.wasm">>],
      [name |-> "circuit.zkey", key |-> "zkey",
       alt |-> <<"LicenseA.zkey", "LicenseB.zkey", "LicenseC.zkey">>],
      [name |-> "verification_key.json", key |-> "vkey", alt |-> <<"vkey.json">>],
      [name |-> "generate_witness.cjs", key |-> "witness", alt |-> <<"witness.js">>]>>

\* multi-circuit application, checkCircuitFiles: const filesToCheck = [...]
circuitFilesToCheck ==
    <<[name |-> "circuit.wasm", key |-> "wasm",
       alt |-> <<"LicenseA.wasm", "LicenseB.wasm", "LicenseC.wasm", "age18.wasm">>],
      [name |-> "circuit.zkey", key |-> "zkey",
       alt |-> <<"LicenseA.zkey", "LicenseB.zkey", "LicenseC.zkey", "age18.zkey">>],
      [name |-> "verification_key.json", key |-> "vkey", alt |-> <<"vkey.json">>],
      [name |-> "generate_witness.cjs", key |-> "witness", alt |-> <<"witness.js">>]>>

Candidates(file) == <<file.name>> \o file.alt
EntryOf(table, k) == table[CHOOSE p \in 1..Len(table) : table[p].key = k]

\* Mutant of FirstExisting: the last existing candidate is taken.
LastExisting(dir, file, fs) ==
    LET cands == Candidates(file)
        hits == {p \in 1..Len(cands) : <<dir, cands[p]>> \in fs}
    IN  IF hits = {} THEN NoPath
        ELSE <<dir, cands[CHOOSE p \in hits : \A q \in hits : p >= q]>>

\* The main file, else the alternatives in order, until one exists (break).
FirstExisting(dir, file, fs) ==
    LET cands == Candidates(file)
        hits == {p \in 1..Len(cands) : <<dir, cands[p]>> \in fs}
    IN  IF hits = {} THEN NoPath
        ELSE <<dir, cands[CHOOSE p \in hits : \A q \in hits : p <= q]>>

\* Mutant of ProbeAll: a slot that was set and is found again is cleared.
ProbeAllToggling(dir, table, files, fs) ==
    [k \in Slots |->
        IF FirstExisting(dir, EntryOf(table, k), fs) # NoPath /\ files[k] = NoPath
        THEN FirstExisting(dir, EntryOf(table, k), fs)
        ELSE NoPath]

\* The loop over filesToCheck: a slot is assigned only when a file is found.
ProbeAll(dir, table, files, fs) ==
    [k \in Slots |->
        IF FirstExisting(dir, EntryOf(table, k), fs) # NoPath
        THEN FirstExisting(dir, EntryOf(table, k), fs)
        ELSE files[k]]

NotFound(dir, table, fs) == {k \in Slots : FirstExisting(dir, EntryOf(table, k), fs) = NoPath}

NoReport == [ran |-> FALSE, requiredFound |-> 0, status |-> {}, listed |-> {}]

\* checkRequiredFiles(), whole: the probes, the status lines and the list
\* printed under "FICHIERS REQUIS MANQUANTS".
checkRequiredFiles ==
    LET files == ProbeAll(AppDir, filesToCheck, currentFiles, fsys)
        missing == NotFound(AppDir, filesToCheck, fsys)
        requiredFound == 4 - Cardinality(missing)
    IN  /\ currentFiles' = files
        /\ report' = [ran |-> TRUE, requiredFound |-> requiredFound, status |-> missing,
                      listed |-> IF requiredFound < 4
                                 THEN {k \in Slots : files[k] = NoPath} ELSE {}]
        /\ UNCHANGED <<fsys, fsOps, circuits, genVars, libVars>>

\* checkCircuitFiles(circuitType), whole.
checkCircuitFiles(c) ==
    LET dir == basePath(c)
        files == ProbeAll(dir, circuitFilesToCheck, circuits[c].files, fsys)
        missing == NotFound(dir, circuitFilesToCheck, fsys)
        requiredFound == 4 - Cardinality(missing)
    IN  /\ circuits' = [circuits EXCEPT ![c] =
                [files |-> files, status |-> missing, requiredFound |-> requiredFound,
                 available |-> IF requiredFound < 4 THEN "false" ELSE "true"]]
        /\ UNCHANGED <<fsys, fsOps, currentFiles, report, genVars, libVars>>

\* Every file the applications look for.
DirFiles(dir, table) ==
    UNION {{<<dir, Candidates(table[p])[q]>> : q \in 1..Len(Candidates(table[p]))} :
            p \in 1..Len(table)}
AppFiles ==
    DirFiles(AppDir, filesToCheck)
        \cup UNION {DirFiles(basePath(c), circuitFilesToCheck) : c \in Circuits}
        \cup {<<"build", "circuit.wasm">>}
PrimaryFiles ==
    {<<AppDir, filesToCheck[p].name>> : p \in 1..Len(filesToCheck)}
        \cup {<<basePath(c), circuitFilesToCheck[p].name>> :
                c \in Circuits, p \in 1..Len(circuitFilesToCheck)}
InitFileSystems == {{}, PrimaryFiles, AppFiles \ PrimaryFiles, AppFiles}

\* The environment creates or deletes one of the files.
CreateFile ==
    /\ fsOps < MaxFsOps
    /\ \E f \in AppFiles \ fsys : fsys' = fsys \cup {f}
    /\ fsOps' = fsOps + 1
    /\ UNCHANGED <<currentFiles, report, circuits, genVars, libVars>>

DeleteFile ==
    /\ fsOps < MaxFsOps
    /\ \E f \in fsys : fsys' = fsys \ {f}
    /\ fsOps' = fsOps + 1
    /\ UNCHANGED <<currentFiles, report, circuits, genVars, libVars>>

\* changeFilePath(): the user picks a slot and types a path, which the prompt
\* accepts only if the file exists; the slot is set to it.
ManualChoices ==
    {<<"wasm", <<"build", "circuit.wasm">>>>, <<"wasm", <<AppDir, "LicenseB.wasm">>>>,
     <<"vkey", <<AppDir, "vkey.json">>>>}
changeFilePath ==
    /\ \E c \in ManualChoices :
            /\ c[2] \in fsys
            /\ currentFiles' = [currentFiles EXCEPT ![c[1]] = c[2]]
    /\ UNCHANGED <<fsys, fsOps, report, circuits, genVars, libVars>>

\* searchFiles(): const searchPaths, const filePatterns (the patterns are
\* joined to the directory as literal file names).
searchPaths == <<AppDir, "circuits", "build", "assets">>
filePatterns ==
    [wasm |-> <<"*.wasm", "circuit.wasm", "LicenseA.wasm", "LicenseB.wasm", "LicenseC.wasm">>,
     zkey |-> <<"*.zkey", "circuit.zkey", "LicenseA.zkey", "LicenseB.zkey", "LicenseC.zkey">>,
     vkey |-> <<"verification_key.json", "vkey.json">>,
     witness |-> <<"generate_witness.cjs", "witness.js">>]

\* fs.pathExists(searchPath): the application's directory exists, another
\* directory exists when it holds a file.
DirExists(dir, fs) == dir = AppDir \/ \E f \in fs : f[1] = dir

\* Mutant of SearchIn: a slot that is already set is looked for again.
SearchInAgain(dir, files, fs) ==
    [k \in Slots |->
        LET hits == {p \in 1..Len(filePatterns[k]) : <<dir, filePatterns[k][p]>> \in fs}
        IN  IF DirExists(dir, fs) /\ hits # {}
            THEN <<dir, filePatterns[k][CHOOSE p \in hits : \A q \in hits : p <= q]>>
            ELSE files[k]]

\* One directory of the search: only the slots still unset are looked for.
SearchIn(dir, files, fs) ==
    [k \in Slots |->
        LET hits == {p \in 1..Len(filePatterns[k]) : <<dir, filePatterns[k][p]>> \in fs}
        IN  IF files[k] = NoPath /\ DirExists(dir, fs) /\ hits # {}
            THEN <<dir, filePatterns[k][CHOOSE p \in hits : \A q \in hits : p <= q]>>
            ELSE files[k]]

RECURSIVE SearchFrom(_, _, _)
SearchFrom(n, files, fs) ==
    IF n > Len(searchPaths) THEN files
    ELSE SearchFrom(n + 1, SearchIn(searchPaths[n], files, fs), fs)

\* found, as the loop counts it: one more for each slot it assigns.
RECURSIVE SearchFound(_, _, _)
SearchFound(n, files, fs) ==
    IF n > Len(searchPaths) THEN 0
    ELSE Cardinality({k \in Slots : SearchIn(searchPaths[n], files, fs)[k] # files[k]})
            + SearchFound(n + 1, SearchIn(searchPaths[n], files, fs), fs)

\* searchFiles(), whole.
searchFiles ==
    /\ currentFiles' = SearchFrom(1, currentFiles, fsys)
    /\ UNCHANGED <<fsys, fsOps, report, circuits, genVars, libVars>>

\* mainMenu (single-circuit application): 'generate' is not disabled.
allFilesPresent == \A k \in Slots : currentFiles[k] # NoPath

\* mainMenu (multi-circuit application): the circuit's entry is not disabled.
circuitAvailable(c) == circuits[c].available = "true"

\* ------------------------------------------ ProofVerifier (standalone module)
MaxBatch == 3

\* An element of the proofs array, by what verifying it does: the backend
\* answers true or false, the backend throws (a malformed proof), or the
\* element is undefined.
BatchItems == {"valid", "invalid", "throws", "undefined"}
BatchInputs == UNION {[1..n -> BatchItems] : n \in 0..MaxBatch}

NoBatchReport == [total |-> 0, valid |-> 0, invalid |-> 0, results |-> <<>>]

\* Direct calls (initialize, verifyProof) made on one verifier.
MaxVerifierCalls == 3

\* What initialize() finds at verificationKeyPath: no file, a file that is
\* not JSON, a file holding the JSON value null (0, false and "" are falsy
\* alike), or a file holding a key object.
KeyFiles == {"missing", "garbage", "null", "key"}

\* The last direct call and how it ended; n counts the direct calls made.
NoCall == [n |-> 0, op |-> "none", outcome |-> "none", item |-> "none",
           backend |-> FALSE, valid |-> FALSE, error |-> ""]

\* new ProofVerifier(): verificationKey = null.
BatchIdle ==
    batch = [pc |-> "idle", key |-> "null", proofs |-> <<>>, i |-> 0, results |-> <<>>,
             validCount |-> 0, report |-> NoBatchReport, last |-> NoCall]

\* Mutant of initialize: the key is cleared before the file is looked for.
initializeClearing ==
    /\ batch.pc = "idle"
    /\ batch.last.n < MaxVerifierCalls
    /\ \E f \in KeyFiles :
            LET failed == f \in {"missing", "garbage"}
            IN  batch' = [batch EXCEPT
                    !.key = IF f = "key" THEN "loaded" ELSE "null",
                    !.last = [NoCall EXCEPT
                                !.n = batch.last.n + 1,
                                !.op = "initialize",
                                !.outcome = IF failed THEN "threw" ELSE "returned",
                                !.error = IF f = "missing" THEN "Cle de verification non trouvee"
                                          ELSE IF f = "garbage" THEN "Unexpected token"
                                          ELSE ""]]
    /\ UNCHANGED <<genVars, appVars, commit, lic, calc>>

\* initialize(): the key file is read and parsed into verificationKey and
\* true is returned; a missing file or a parse error is rethrown, and
\* verificationKey is then not assigned.
initialize ==
    /\ batch.pc = "idle"
    /\ batch.last.n < MaxVerifierCalls
    /\ \E f \in KeyFiles :
            LET failed == f \in {"missing", "garbage"}
            IN  batch' = [batch EXCEPT
                    !.key = IF f = "key" THEN "loaded"
                            ELSE IF f = "null" THEN "null" ELSE @,
                    !.last = [NoCall EXCEPT
                                !.n = batch.last.n + 1,
                                !.op = "initialize",
                                !.outcome = IF failed THEN "threw" ELSE "returned",
                                !.error = IF f = "missing" THEN "Cle de verification non trouvee"
                                          ELSE IF f = "garbage" THEN "Unexpected token"
                                          ELSE ""]]
    /\ UNCHANGED <<genVars, appVars, commit, lic, calc>>

\* Mutant of standaloneVerifyProof: the catch block reports the proof as valid.
standaloneVerifyProofLenient(key, item) ==
    IF key = "null"
    THEN [threw |-> TRUE, backend |-> FALSE, valid |-> FALSE,
          error |-> "Verificateur non initialise"]
    ELSE IF item = "throws"
    THEN [threw |-> FALSE, backend |-> TRUE, valid |-> TRUE,
          error |-> "snarkjs: invalid proof"]
    ELSE [threw |-> FALSE, backend |-> TRUE, valid |-> (item = "valid"), error |-> ""]

\* verifyProof(proof, publicSignals) of the standalone verifier: what it
\* returns, or that it throws (verifier not initialised).
standaloneVerifyProof(key, item) ==
    IF key = "null"
    THEN [threw |-> TRUE, backend |-> FALSE, valid |-> FALSE,
          error |-> "Verificateur non initialise"]
    ELSE IF item = "throws"
    THEN [threw |-> FALSE, backend |-> TRUE, valid |-> FALSE,
          error |-> "snarkjs: invalid proof"]
    ELSE [threw |-> FALSE, backend |-> TRUE, valid |-> (item = "valid"), error |-> ""]

\* verifyProof(proof, publicSignals) called directly on the verifier.
pvVerifyProof ==
    /\ batch.pc = "idle"
    /\ batch.last.n < MaxVerifierCalls
    /\ \E item \in BatchItems \ {"undefined"} :
            LET v == standaloneVerifyProof(batch.key, item)
            IN  batch' = [batch EXCEPT
                    !.last = [n |-> batch.last.n + 1,
                              op |-> "verifyProof",
                              outcome |-> IF v.threw THEN "threw" ELSE "returned",
                              item |-> item,
                              backend |-> v.backend,
                              valid |-> v.valid,
                              error |-> v.error]]
    /\ UNCHANGED <<genVars, appVars, commit, lic, calc>>

\* batchVerify(proofs) up to its loop.
batchVerify ==
    /\ batch.pc = "idle"
    /\ \E ps \in BatchInputs :
            batch' = [batch EXCEPT !.pc = "loop", !.proofs = ps, !.i = 0, !.results = <<>>,
                                   !.validCount = 0]
    /\ UNCHANGED <<genVars, appVars, commit, lic, calc>>

\* Mutant of BatchItem: the loop is left at the first element that fails.
BatchItemAborting ==
    /\ batch.pc = "loop"
    /\ batch.i < Len(batch.proofs)
    /\ LET item == batch.proofs[batch.i + 1]
           v == standaloneVerifyProof(batch.key, item)
           failed == item = "undefined" \/ v.threw \/ v.error # ""
           entry == IF item = "undefined"
                    THEN [index |-> batch.i, valid |-> FALSE,
                          error |-> "Cannot read properties of undefined"]
                    ELSE [index |-> batch.i, valid |-> v.valid, error |-> v.error]
       IN  batch' = [batch EXCEPT
                        !.results = Append(batch.results, entry),
                        !.validCount = IF item # "undefined" /\ ~v.threw /\ v.valid
                                       THEN batch.validCount + 1 ELSE batch.validCount,
                        !.i = IF failed THEN Len(batch.proofs) ELSE batch.i + 1]
    /\ UNCHANGED <<genVars, appVars, commit, lic, calc>>

\* One turn of batchVerify's loop: proofs[i] is verified and its result, or
\* the error caught, is pushed with its index.
BatchItem ==
    /\ batch.pc = "loop"
    /\ batch.i < Len(batch.proofs)
    /\ LET item == batch.proofs[batch.i + 1]
           v == standaloneVerifyProof(batch.key, item)
           entry == IF item = "undefined"
                    THEN [index |-> batch.i, valid |-> FALSE,
                          error |-> "Cannot read properties of undefined"]
                    ELSE [index |-> batch.i, valid |-> v.valid, error |-> v.error]
       IN  batch' = [batch EXCEPT
                        !.results = Append(batch.results, entry),
                        !.validCount = IF item # "undefined" /\ ~v.threw /\ v.valid
                                       THEN batch.validCount + 1 ELSE batch.validCount,
                        !.i = batch.i + 1]
    /\ UNCHANGED <<genVars, appVars, commit, lic, calc>>

\* Mutant of BatchReturn: errored items are left out of the invalid count.
BatchReturnErrorsApart ==
    /\ batch.pc = "loop"
    /\ batch.i >= Len(batch.proofs)
    /\ batch' = [batch EXCEPT
                    !.pc = "returned",
                    !.report = [total |-> Len(batch.proofs), valid |-> batch.validCount,
                                invalid |-> Cardinality({p \in 1..Len(batch.results) :
                                                ~batch.results[p].valid
                                                    /\ batch.results[p].error = ""}),
                                results |-> batch.results]]
    /\ UNCHANGED <<genVars, appVars, commit, lic, calc>>

\* batchVerify after its loop: the report is built and returned.
BatchReturn ==
    /\ batch.pc = "loop"
    /\ batch.i >= Len(batch.proofs)
    /\ batch' = [batch EXCEPT
                    !.pc = "returned",
                    !.report = [total |-> Len(batch.proofs), valid |-> batch.validCount,
                                invalid |-> Len(batch.proofs) - batch.validCount,
                                results |-> batch.results]]
    /\ UNCHANGED <<genVars, appVars, commit, lic, calc>>

\* ------------------------------------------------------------- commitments
MaxCalls == 3
PadWidth == 64
HashModulus == 65521

\* str.padEnd(64, '\0'): zeros are appended up to the width, a longer string
\* is left as it is.
padEnd(str, width) ==
    IF Len(str) >= width THEN str ELSE str \o [p \in 1..(width - Len(str)) |-> 0]

\* Mutant of createHash: the hash object of the previous call is used again.
createHashShared(c) == c.ctx

\* crypto.createHash('sha256'): a new hash object, with nothing fed to it.
createHash(c) == <<>>

\* hash.digest(): SHA-256 is abstracted to a checksum of the bytes fed to the
\* hash object, in the order they were fed.
RECURSIVE WeightedSum(_, _, _)
WeightedSum(data, lo, hi) ==
    IF lo > hi THEN 0
    ELSE IF lo = hi THEN (data[lo] + 1) * ((lo % 251) + 1)
    ELSE (WeightedSum(data, lo, (lo + hi) \div 2)
          + WeightedSum(data, ((lo + hi) \div 2) + 1, hi)) % HashModulus
Checksum(data) == (WeightedSum(data, 1, Len(data)) + Len(data)) % HashModulus

\* digest('hex'): the digest written in lower-case hexadecimal digits.
HexDigit(d) == IF d < 10 THEN 48 + d ELSE 87 + d
ToHex(n) ==
    <<HexDigit((n \div 4096) % 16), HexDigit((n \div 256) % 16),
      HexDigit((n \div 16) % 16), HexDigit(n % 16)>>

\* The body shared by calculateCommitment and calculateCommitmentHex: the data
\* fed to the hash object, which is then digested.
HashedData(c, a) ==
    createHash(c) \o padEnd(a.name, PadWidth) \o padEnd(a.surname, PadWidth)
        \o a.birthDate \o a.license \o a.expDate \o a.nonce

CommitArgs ==
    [name : {sJean, Rep(65, 65)}, surname : {sDurand}, birthDate : {dLeap},
     license : {<<65>>}, expDate : {<<50, 48, 51, 48, 45, 48, 49, 45, 48, 49>>},
     nonce : {Rep(97, 8), Rep(49, 8)}]

\* registerUser's template string and generateProof's rawString: the fields
\* one after the other, as they are.
rawString(c, a) ==
    createHash(c) \o a.name \o a.surname \o a.birthDate \o a.license \o a.expDate \o a.nonce

CommitIdle == commit = [sys |-> "constructed", ctx |-> <<>>, log |-> <<>>]

\* LicenseVerificationSystem.initialize(): the object's fields are set.
initializeSystem ==
    /\ commit.sys = "constructed"
    /\ commit' = [commit EXCEPT !.sys = "initialized"]
    /\ UNCHANGED <<genVars, appVars, batch, lic, calc>>

\* One call of fn with arguments a, whole: data is fed to the hash object and
\* the digest is appended to the log.
CommitCall(fn, a, data) ==
    /\ Len(commit.log) < MaxCalls
    /\ commit' = [commit EXCEPT
                    !.ctx = data,
                    !.log = Append(commit.log,
                                   [fn |-> fn, args |-> a, sys |-> commit.sys,
                                    data |-> data, digest |-> ToHex(Checksum(data))])]
    /\ UNCHANGED <<genVars, appVars, batch, lic, calc>>

\* LicenseVerificationSystem.calculateCommitment(name, ..., nonce)
calculateCommitment ==
    \E a \in CommitArgs : CommitCall("calculateCommitment", a, HashedData(commit, a))

\* WitnessGenerator.calculateCommitmentHex(name, ..., nonce)
calculateCommitmentHex ==
    \E a \in CommitArgs : CommitCall("calculateCommitmentHex", a, HashedData(commit, a))

\* registerUser(name, surname, dob, licenseCategory, expDate): the nonce is
\* crypto.randomBytes(4).toString("hex"), and computeCommitment hashes the
\* concatenation. The log keeps the digest that computeCommitment then splits
\* into two 128-bit integers.
registerUser ==
    \E a \in CommitArgs : CommitCall("registerUser", a, rawString(commit, a))

\* proofCreation's generateProof({name, familyName, dob, licsense,
\* expirationDate}): the nonce is crypto.randomUUID().slice(0, 8), and
\* sha256(rawString) is the commitment turned into bits.
proofCreationCommitment ==
    \E a \in CommitArgs : CommitCall("generateProof", a, rawString(commit, a))

\* ----------------------------------------------- generation on a userData
MaxGen == 2
FieldWidth == 64
NonceWidth == 8
ShortNameWidth == 4

\* userData.nonce: absent, or the string the caller put there.
NoNonce == [set |-> FALSE, v |-> <<>>]
Nonce(v) == [set |-> TRUE, v |-> v]

\* The userData objects a caller builds.
UserDatas ==
    [name : {sJean, Rep(88, FieldWidth), Rep(88, FieldWidth + 1)}, surname : {sDurand},
     birthDate : {dLeap, dFeb30}, license : {<<65>>},
     expDate : {<<50, 48, 51, 48, 45, 48, 49, 45, 48, 49>>},
     nonce : {NoNonce, Nonce(Rep(97, NonceWidth))}]

LicIdle == lic = [obj |-> CHOOSE u \in UserDatas : TRUE, supplied |-> FALSE, log |-> <<>>]

\* generateNonce(): eight characters drawn at random from 62. A draw is taken
\* to differ from every nonce seen before (two equal draws have probability
\* 62^-8).
SeenNonces ==
    {lic.log[p].nonce : p \in 1..Len(lic.log)}
        \cup {lic.obj.nonce.v} \cup {u.nonce.v : u \in UserDatas}
generateNonce == {Rep(97 + k, NonceWidth) : k \in 1..MaxGen} \ SeenNonces

\* WitnessGenerator.stringToFixedArray(str, length)
stringToFixedArray(str, length) ==
    [p \in 1..length |-> IF p - 1 < Len(str) /\ p - 1 < length THEN str[p] ELSE 0]

\* LicenseVerificationSystem.stringToAsciiArray(str, length), and the function
\* of the same name in proofCreation.
lvsStringToAsciiArray(str, length) ==
    LET result == [p \in 1..length |-> 0]
        n == IF Len(str) < length THEN Len(str) ELSE length
    IN  [p \in 1..length |-> IF p <= n THEN str[p] ELSE result[p]]

\* The caller builds a userData object.
newUserData ==
    /\ Len(lic.log) < MaxGen
    /\ \E u \in UserDatas :
            lic' = [lic EXCEPT !.obj = u, !.supplied = u.nonce.set]
    /\ UNCHANGED <<genVars, appVars, batch, commit, calc>>

\* One generation call on the caller's object, as the log keeps it.
GenCall(fn, after, nonce, pubName, outcome, msg) ==
    /\ Len(lic.log) < MaxGen
    /\ lic' = [lic EXCEPT
                 !.obj = after,
                 !.log = Append(lic.log,
                                [fn |-> fn, before |-> lic.obj, after |-> after,
                                 supplied |-> lic.supplied, nonce |-> nonce,
                                 pubName |-> pubName, outcome |-> outcome, msg |-> msg])]
    /\ UNCHANGED <<genVars, appVars, batch, commit, calc>>

\* LicenseVerificationSystem.generateProof(userData): a nonce is stored in
\* userData if it has none, the circuit inputs are built, and
\* snarkjs.wtns.calculate and groth16.prove resolve or reject.
lvsGenerateProof ==
    \E n \in generateNonce, outcome \in {"returned", "thrown"} :
        LET userData == IF ~lic.obj.nonce.set \/ lic.obj.nonce.v = <<>>
                        THEN [lic.obj EXCEPT !.nonce = Nonce(n)]
                        ELSE lic.obj
        IN  GenCall("LicenseVerificationSystem.generateProof", userData, userData.nonce.v,
                    lvsStringToAsciiArray(userData.name, FieldWidth), outcome,
                    IF outcome = "thrown" THEN "snarkjs" ELSE "")

\* WitnessGenerator.validateUserData(userData): the message thrown, or "".
validateUserData(userData, engine) ==
    IF userData.name = <<>> THEN "Le nom est requis"
    ELSE IF userData.surname = <<>> THEN "Le prenom est requis"
    ELSE IF userData.birthDate = <<>> \/ ~isValidDate(userData.birthDate, engine)
    THEN "Date de naissance invalide (format attendu: YYYY-MM-DD)"
    ELSE IF Len(userData.license) # 1
    THEN "Type de permis invalide (un seul caractere attendu)"
    ELSE IF userData.expDate = <<>> \/ ~isValidDate(userData.expDate, engine)
    THEN "Date d'expiration invalide (format attendu: YYYY-MM-DD)"
    ELSE IF Len(userData.name) > FieldWidth
    THEN "Le nom ne peut pas depasser 64 caracteres"
    ELSE IF Len(userData.surname) > FieldWidth
    THEN "Le prenom ne peut pas depasser 64 caracteres"
    ELSE ""

\* WitnessGenerator.generateWitness(userData): the nonce defaults to a new one
\* when userData.nonce is undefined, the data is validated, and the inputs are
\* encoded.
wgGenerateWitness ==
    \E n \in generateNonce, engine \in Engines :
        LET nonce == IF lic.obj.nonce.set THEN lic.obj.nonce.v ELSE n
            msg == validateUserData(lic.obj, engine)
        IN  IF msg # ""
            THEN GenCall("WitnessGenerator.generateWitness", lic.obj, nonce, <<>>,
                         "thrown", msg)
            ELSE GenCall("WitnessGenerator.generateWitness", lic.obj, nonce,
                         stringToFixedArray(lic.obj.name, FieldWidth), "returned", "")

\* proofCreation's generateProof({name, familyName, dob, licsense,
\* expirationDate}): the nonce is always a new one, the inputs are encoded, and
\* snarkjs.groth16.fullProve resolves or rejects.
pcGenerateProof ==
    \E n \in generateNonce, outcome \in {"returned", "thrown"} :
        GenCall("proofCreation.generateProof", lic.obj, n,
                lvsStringToAsciiArray(lic.obj.name, ShortNameWidth), outcome,
                IF outcome = "thrown" THEN "snarkjs" ELSE "")

\* ------------------------------------------- pure functions, applied once
Pending == [done |-> FALSE, threw |-> FALSE, v |-> <<>>]
Returned(v) == [done |-> TRUE, threw |-> FALSE, v |-> v]
Threw(m) == [done |-> TRUE, threw |-> TRUE, v |-> m]

\* genWitness strToAsciiArr(str, len), with i elements pushed.
RECURSIVE strToAsciiArrLoop(_, _, _)
strToAsciiArrLoop(str, len, i) ==
    IF i = 0 THEN <<>>
    ELSE Append(strToAsciiArrLoop(str, len, i - 1), IF i - 1 < Len(str) THEN str[i] ELSE 0)

\* Mutant of strToAsciiArr: the array is padded with spaces.
strToAsciiArrSpaces(str, len) ==
    [p \in 1..len |-> IF p <= Len(str) THEN str[p] ELSE 32]

strToAsciiArr(str, len) == strToAsciiArrLoop(str, len, len)

\* utils formatDateToAscii(dateStr)
formatDateToAscii(dateStr) ==
    IF ~DateRegex(dateStr) THEN Threw("Format de date invalide. Utilisez YYYY-MM-DD")
    ELSE Returned(stringToAsciiArray(dateStr, 10))

EncoderNames == {"utils", "WitnessGenerator", "LicenseVerificationSystem", "genWitness"}
Encoder(f, str, length) ==
    CASE f = "utils" -> stringToAsciiArray(str, length)
      [] f = "WitnessGenerator" -> stringToFixedArray(str, length)
      [] f = "LicenseVerificationSystem" -> lvsStringToAsciiArray(str, length)
      [] f = "genWitness" -> strToAsciiArr(str, length)

\* The strings and widths the encoders are applied to.
EncodeInputs ==
    [kind : {"encode"},
     str : {<<>>, <<65>>, sJean, sDurand, dLeap, dShort, Rep(88, NameWidth),
            Rep(88, NameWidth + 1), Rep(88, FieldWidth)},
     width : {1, ShortNameWidth, 10, NameWidth, FieldWidth},
     out : {[f \in EncoderNames |-> Pending]}, date : {Pending}]

ApplyEncoder ==
    /\ calc.kind = "encode"
    /\ \E f \in EncoderNames :
            /\ ~calc.out[f].done
            /\ calc' = [calc EXCEPT !.out[f] = Returned(Encoder(f, calc.str, calc.width))]
    /\ UNCHANGED <<genVars, appVars, batch, commit, lic>>

ApplyFormatDate ==
    /\ calc.kind = "encode"
    /\ ~calc.date.done
    /\ calc' = [calc EXCEPT !.date = formatDateToAscii(calc.str)]
    /\ UNCHANGED <<genVars, appVars, batch, commit, lic>>

\* The date strings the validators are applied to, and where they run.
DateString(y, m, d) == PadDigits(y, 4) \o <<45>> \o PadDigits(m, 2) \o <<45>> \o PadDigits(d, 2)
DateInputs ==
    [kind : {"date"},
     s : {DateString(y, m, d) : y \in {1999, 2000}, m \in {0, 1, 2, 4, 12, 13},
                                d \in {0, 1, 28, 29, 30, 31, 32}}
            \cup {dShort, <<>>, sJean},
     tz : TimeZones, engine : Engines, vd : {Pending}, iv : {Pending}]

ApplyValidateDate ==
    /\ calc.kind = "date"
    /\ ~calc.vd.done
    /\ calc' = [calc EXCEPT !.vd = Returned(validateDate(calc.s, calc.tz, calc.engine))]
    /\ UNCHANGED <<genVars, appVars, batch, commit, lic>>

ApplyIsValidDate ==
    /\ calc.kind = "date"
    /\ ~calc.iv.done
    /\ calc' = [calc EXCEPT !.iv = Returned(isValidDate(calc.s, calc.engine))]
    /\ UNCHANGED <<genVars, appVars, batch, commit, lic>>

\* verifyProofFlow, age18: result.publicSignals[0] === '1'
age18Outcome(publicSignals) ==
    publicSignals.els[1].t = "str" /\ publicSignals.els[1].s = <<49>>

InterpretSites == {"generation", "verification", "age18"}
Interpret(site, publicSignals) ==
    CASE site = "generation" -> genHasLicenseA(publicSignals)
      [] site = "verification" -> parsePublicSignals(publicSignals)
      [] site = "age18" -> age18Outcome(publicSignals)

\* The publicSignals the three places are given.
FirstSignals ==
    {SigStr(<<49>>), SigNum(1), SigStr(<<48>>), SigNum(0), SigStr(<<48, 49>>),
     SigStr(<<49, 48>>), SigNum(2)}
SignalInputs ==
    [kind : {"signals"},
     publicSignals : {SArr(<<a>>) : a \in FirstSignals}
                        \cup {SArr(<<a, b>>) : a \in FirstSignals, b \in {SigStr(<<49>>), SigNum(0)}},
     out : {[site \in InterpretSites |-> Pending]}]

ApplyInterpret ==
    /\ calc.kind = "signals"
    /\ \E site \in InterpretSites :
            /\ ~calc.out[site].done
            /\ calc' = [calc EXCEPT !.out[site] = Returned(Interpret(site, calc.publicSignals))]
    /\ UNCHANGED <<genVars, appVars, batch, commit, lic>>

\* ------------------------------------------------- the license circuit
\* The circuit computes in a prime field. The field is modelled by a prime
\* larger than the square of any difference of two character codes, so that
\* no product of the circuit wraps around.
FieldPrime == 65521
FieldElement(x) == ((x % FieldPrime) + FieldPrime) % FieldPrime

\* template IsEqual(1): eq[0] <== 1 - (in[0] - constant[0]) * (in[0] - constant[0])
IsEqual1(in, constant) == FieldElement(1 - (in - constant) * (in - constant))

\* Mutant of LicenseA: the circuit compares with 'B'.
LicenseAComparingB(license) == IsEqual1(license[1], 66)

\* template LicenseA: hasLicenseA <== isA.out, with isA.constant[0] <== 65
LicenseA(license) == IsEqual1(license[1], 65)

\* A field element as snarkjs writes it in publicSignals: decimal digits.
RECURSIVE Decimal(_)
Decimal(n) == IF n < 10 THEN <<48 + n>> ELSE Append(Decimal(n \div 10), 48 + (n % 10))

NoArtifact == [state |-> "none", circuit |-> "none", result |-> NoResult]
NoE2E == [done |-> FALSE, threw |-> FALSE, valid |-> FALSE, hasLicenseA |-> FALSE]
E2EInputs ==
    [kind : {"e2e"},
     input : {[BaseInput EXCEPT !.license = <<l>>] : l \in {64, 65, 66, 67, 68, 97}},
     vk : {"license", "age18"}, artifact : {NoArtifact}, result : {NoE2E}]

\* ProofGenerator.generateProof on the license circuit: the inputs are
\* validated, the witness generator evaluates the circuit on the encoded
\* input, and groth16.prove gives a proof of that witness with its public
\* signal, or one of the stages fails.
e2eGenerate ==
    /\ calc.kind = "e2e"
    /\ calc.artifact.state = "none"
    /\ \/ /\ validateInputs(calc.input) = <<>>
          /\ calc' = [calc EXCEPT !.artifact =
                        [state |-> "made", circuit |-> "license",
                         result |-> BuildResult(calc.input,
                                       SArr(<<SigStr(Decimal(LicenseA(calc.input.license)))>>))]]
       \/ calc' = [calc EXCEPT !.artifact.state = "failed"]
    /\ UNCHANGED <<genVars, appVars, batch, commit, lic>>

\* snarkjs.groth16.verify(vkeyData, publicSignals, proof): a proof is accepted
\* exactly for the circuit and the public signals it was made for.
groth16Verify(vk, publicSignals, artifact) ==
    vk = artifact.circuit /\ publicSignals = artifact.result.sig

\* ProofVerifier.verifyProof on the saved artifact, with the key of circuit vk.
e2eVerify ==
    /\ calc.kind = "e2e"
    /\ calc.artifact.state = "made"
    /\ ~calc.result.done
    /\ LET x == extractProofData(Container(GoodProof, calc.artifact.result.sig), SUndef)
           v == validateProofConsistency(x.proof, x.publicSignals, PathOf("vkey"), "ok")
       IN  calc' = [calc EXCEPT !.result =
                IF x.err # NoErr \/ v # NoErr
                THEN [NoE2E EXCEPT !.done = TRUE, !.threw = TRUE]
                ELSE [done |-> TRUE, threw |-> FALSE,
                      valid |-> groth16Verify(calc.vk, x.publicSignals, calc.artifact),
                      hasLicenseA |-> parsePublicSignals(x.publicSignals)]]
    /\ UNCHANGED <<genVars, appVars, batch, commit, lic>>

\* ------------------------------------------- hex digests and bit arrays
\* parseInt(s, 16): the value of the longest prefix of hexadecimal digits, or
\* NaN (written -1) when s does not start with one.
HexValue(c) ==
    IF c \in 48..57 THEN c - 48
    ELSE IF c \in 97..102 THEN c - 87
    ELSE IF c \in 65..70 THEN c - 55
    ELSE -1
RECURSIVE parseInt16From(_, _, _)
parseInt16From(s, p, acc) ==
    IF p > Len(s) \/ HexValue(s[p]) = -1 THEN acc
    ELSE parseInt16From(s, p + 1, (IF acc = -1 THEN 0 ELSE acc * 16) + HexValue(s[p]))
parseInt16(s) == parseInt16From(s, 1, -1)

\* (n >> j) & 1; NaN is converted to 0 by the shift.
Bit(n, j) == IF n < 0 THEN 0 ELSE (n \div (2 ^ j)) % 2

\* hex.substr(i, 2)
substr2(hex, i) == SubSeq(hex, i + 1, IF i + 2 <= Len(hex) THEN i + 2 ELSE Len(hex))

\* Mutant of hexToBitArray: the bits of a byte are pushed from j = 0 up to 7.
hexToBitArrayLsbFirst(hex) ==
    [p \in 1..(8 * ((Len(hex) + 1) \div 2)) |->
        Bit(parseInt16(substr2(hex, 2 * ((p - 1) \div 8))), (p - 1) % 8)]

\* hexToBitArray(hex) of LicenseVerificationSystem and of WitnessGenerator:
\* for each two digits, the byte's bits from j = 7 down to 0.
hexToBitArray(hex) ==
    [p \in 1..(8 * ((Len(hex) + 1) \div 2)) |->
        Bit(parseInt16(substr2(hex, 2 * ((p - 1) \div 8))), 7 - ((p - 1) % 8))]

\* hexToBitArray(hexStr) of proofCreation: for each digit, (nibble & 8) >> 3,
\* (nibble & 4) >> 2, (nibble & 2) >> 1, nibble & 1.
pcHexToBitArray(hexStr) ==
    [p \in 1..(4 * Len(hexStr)) |->
        Bit(parseInt16(<<hexStr[((p - 1) \div 4) + 1]>>), 3 - ((p - 1) % 4))]

\* hashToBitArray(hash) of proofCreation: bits.slice(0, 256)
hashToBitArray(hash) ==
    LET bits == pcHexToBitArray(hash)
    IN  SubSeq(bits, 1, IF Len(bits) < 256 THEN Len(bits) ELSE 256)

\* byte.toString(16).padStart(2, '0')
ByteToHex(byte) == <<HexDigit(byte \div 16), HexDigit(byte % 16)>>

\* The byte bitArrayToHex sums from bits[i .. i + 7], absent bits left out.
ByteAt(bits, i) ==
    LET b(j) == IF i + j < Len(bits) THEN bits[i + j + 1] * (2 ^ (7 - j)) ELSE 0
    IN  b(0) + b(1) + b(2) + b(3) + b(4) + b(5) + b(6) + b(7)

\* WitnessGenerator.bitArrayToHex(bits), digits lo..hi of the bytes.
RECURSIVE bitArrayToHexRange(_, _, _)
bitArrayToHexRange(bits, lo, hi) ==
    IF lo > hi THEN <<>>
    ELSE IF lo = hi THEN ByteToHex(ByteAt(bits, 8 * (lo - 1)))
    ELSE bitArrayToHexRange(bits, lo, (lo + hi) \div 2)
            \o bitArrayToHexRange(bits, ((lo + hi) \div 2) + 1, hi)
bitArrayToHex(bits) == bitArrayToHexRange(bits, 1, (Len(bits) + 7) \div 8)

\* The digests the projections are applied to: lower-case hexadecimal, as
\* digest('hex') writes them.
HexDigits == {48, 49, 50, 51, 52, 53, 54, 55, 56, 57, 97, 98, 99, 100, 101, 102}
Digest64(a, b) == [p \in 1..64 |-> IF p % 2 = 1 THEN a ELSE b]
HexSites ==
    {"LicenseVerificationSystem.hexToBitArray", "WitnessGenerator.hexToBitArray",
     "proofCreation.hexToBitArray", "proofCreation.hashToBitArray", "bitArrayToHex"}
HexInputs ==
    [kind : {"hex"},
     h : {<<a, b>> : a \in HexDigits, b \in HexDigits}
            \cup {Digest64(102, 102), Digest64(48, 49), Digest64(56, 97),
                  [p \in 1..64 |-> HexDigit((7 * p) % 16)]},
     out : {[site \in HexSites |-> Pending]}]
ProjectHex(site, h) ==
    CASE site = "LicenseVerificationSystem.hexToBitArray" -> hexToBitArray(h)
      [] site = "WitnessGenerator.hexToBitArray" -> hexToBitArray(h)
      [] site = "proofCreation.hexToBitArray" -> pcHexToBitArray(h)
      [] site = "proofCreation.hashToBitArray" -> hashToBitArray(h)
      [] site = "bitArrayToHex" -> bitArrayToHex(hexToBitArray(h))

ApplyHex ==
    /\ calc.kind = "hex"
    /\ \E site \in HexSites :
            /\ ~calc.out[site].done
            /\ calc' = [calc EXCEPT !.out[site] = Returned(ProjectHex(site, calc.h))]
    /\ UNCHANGED <<genVars, appVars, batch, commit, lic>>

\* ------------------------------------------------ the age of the age-18 flow
\* const age = today.getFullYear() - birthDate.getFullYear(); age-- : the
\* decrement of a const binding throws a TypeError.
computeAge(today, birthDate) ==
    LET age == today.y - birthDate.y
        monthDiff == (today.m - 1) - (birthDate.m - 1)
    IN  IF monthDiff < 0 \/ (monthDiff = 0 /\ today.d < birthDate.d)
        THEN Threw("Assignment to constant variable.")
        ELSE Returned(age)

\* The dob typed at the prompt, the local date of the run and where it runs.
AgeInputs ==
    [kind : {"age"},
     dob : {DateString(y, md[1], md[2]) :
                y \in {2000, 2006}, md \in {<<1, 1>>, <<2, 28>>, <<6, 15>>, <<12, 31>>}},
     today : {[nan |-> FALSE, y |-> y, m |-> md[1], d |-> md[2]] :
                y \in {2006, 2024}, md \in {<<1, 1>>, <<6, 14>>, <<6, 15>>, <<12, 31>>}},
     tz : TimeZones, engine : Engines, out : {Pending}, next : {"prompt"}]

\* generateProofFlow for age18, from the answer to the dob prompt (accepted by
\* validateDate) to the call of generateProofForCircuit: the age is computed
\* and stored in answers, or the computation throws and the flow's catch
\* block prints the error.
ApplyComputeAge ==
    /\ calc.kind = "age"
    /\ ~calc.out.done
    /\ validateDate(calc.dob, calc.tz, calc.engine) = "true"
    /\ LET birthDate == LocalFields(NewDate(calc.dob, calc.engine), calc.tz)
           r == computeAge(calc.today, birthDate)
       IN  calc' = [calc EXCEPT !.out = r,
                                !.next = IF r.threw THEN "catch" ELSE "generateProofForCircuit"]
    /\ UNCHANGED <<genVars, appVars, batch, commit, lic>>

\* ------------------------------------- witnesses of the ProofOfLicense circuit
\* hash.update(fullData, 'utf8'): the bytes of the string in UTF-8 (the
\* strings drawn have no surrogate pairs).
Utf8Char(c) ==
    IF c < 128 THEN <<c>>
    ELSE IF c < 2048 THEN <<192 + (c \div 64), 128 + (c % 64)>>
    ELSE <<224 + (c \div 4096), 128 + ((c \div 64) % 64), 128 + (c % 64)>>
RECURSIVE Utf8Range(_, _, _)
Utf8Range(str, lo, hi) ==
    IF lo > hi THEN <<>>
    ELSE IF lo = hi THEN Utf8Char(str[lo])
    ELSE Utf8Range(str, lo, (lo + hi) \div 2) \o Utf8Range(str, ((lo + hi) \div 2) + 1, hi)
Utf8(str) == Utf8Range(str, 1, Len(str))

\* calculateCommitment / calculateCommitmentHex on a string that may hold
\* characters outside ASCII.
CommitmentHex(a) == ToHex(Checksum(Utf8(HashedData(commit, a))))

\* The userData objects given to the two generators of ProofOfLicense inputs.
WitnessDatas ==
    [name : {sJean, <<74, 0, 110>>, <<201, 118, 101>>, <<321>>, Rep(88, FieldWidth + 1)},
     surname : {sDurand}, birthDate : {dLeap}, license : {<<65>>},
     expDate : {<<50, 48, 51, 48, 45, 48, 49, 45, 48, 49>>},
     nonce : {NoNonce, Nonce(Rep(97, NonceWidth)), Nonce(Rep(97, NonceWidth - 3)),
              Nonce(Rep(97, NonceWidth + 1))}]

NoWitness ==
    [state |-> "none", inputs |-> <<>>, nonce |-> <<>>, commitment |-> <<>>,
     fullData |-> <<>>]

\* The object built from userData and the nonce in use: inputs, nonce and
\* commitment, with the string that was hashed.
MakeWitness(userData, nonce, f) ==
    LET a == [name |-> userData.name, surname |-> userData.surname,
              birthDate |-> userData.birthDate, license |-> userData.license,
              expDate |-> userData.expDate, nonce |-> nonce]
    IN  [state |-> "made",
         inputs |-> [pubName |-> Encoder(f, userData.name, FieldWidth),
                     pubSurname |-> Encoder(f, userData.surname, FieldWidth),
                     commitment |-> hexToBitArray(CommitmentHex(a)),
                     privDate |-> Encoder(f, userData.birthDate, 10),
                     privLicense |-> Encoder(f, userData.license, 1),
                     privExpDate |-> Encoder(f, userData.expDate, 10),
                     nonce |-> Encoder(f, nonce, NonceWidth)],
         nonce |-> nonce,
         commitment |-> CommitmentHex(a),
         fullData |-> HashedData(commit, a)]

\* WitnessGenerator.generateWitness(userData), as a function of the nonce drawn.
generateWitness(userData, drawn, engine) ==
    IF validateUserData(userData, engine) # "" THEN [NoWitness EXCEPT !.state = "thrown"]
    ELSE MakeWitness(userData, IF userData.nonce.set THEN userData.nonce.v ELSE drawn,
                     "WitnessGenerator")

\* LicenseVerificationSystem.generateProof up to generateCircuitInputs(userData).
generateCircuitInputs(userData, drawn) ==
    MakeWitness(userData,
                IF ~userData.nonce.set \/ userData.nonce.v = <<>> THEN drawn
                ELSE userData.nonce.v,
                "LicenseVerificationSystem")

\* Num2Bits(8): out[i] is bit i of the input, bit 0 first; an input of more
\* than 8 bits satisfies no assignment.
Num2Bits8(in) == [j \in 1..8 |-> Bit(in, j - 1)]

\* template ProofOfLicense: fullInput, the 157 input values in order.
fullInput(inputs) ==
    inputs.pubName \o inputs.pubSurname \o inputs.privDate \o inputs.privLicense
        \o inputs.privExpDate \o inputs.nonce

\* fullInputBits[i * 8 + j] <== charToBits[i].out[j]
fullInputBits(inputs) ==
    LET full == fullInput(inputs)
    IN  [p \in 1..(8 * Len(full)) |-> Num2Bits8(full[((p - 1) \div 8) + 1])[((p - 1) % 8) + 1]]

\* component hash = Sha256(n): the digest of the message whose bits are in[0],
\* in[1], ..., a byte of the message being eight bits, the highest first; out
\* is the digest, highest bit first.
RECURSIVE BytesOfBits(_, _, _)
BytesOfBits(bits, lo, hi) ==
    IF lo > hi THEN <<>>
    ELSE IF lo = hi THEN <<ByteAt(bits, 8 * (lo - 1))>>
    ELSE BytesOfBits(bits, lo, (lo + hi) \div 2) \o BytesOfBits(bits, ((lo + hi) \div 2) + 1, hi)
Sha256Component(bits) ==
    hexToBitArray(ToHex(Checksum(BytesOfBits(bits, 1, Len(bits) \div 8))))

\* template ProofOfLicense: whether the inputs satisfy every constraint.
ProofOfLicense(inputs) ==
    /\ \A p \in 1..Len(fullInput(inputs)) : fullInput(inputs)[p] \in 0..255
    /\ Sha256Component(fullInputBits(inputs)) = inputs.commitment
    /\ inputs.privLicense[1] = 65

\* String.fromCharCode(...codes).replace(/\0/g, '')
RECURSIVE withoutNul(_)
withoutNul(codes) ==
    IF codes = <<>> THEN <<>>
    ELSE IF Head(codes) = 0 THEN withoutNul(Tail(codes))
    ELSE <<Head(codes)>> \o withoutNul(Tail(codes))

\* WitnessGenerator.validateWitness(witness)
validateWitness(witness) ==
    LET a == [name |-> withoutNul(witness.inputs.pubName),
              surname |-> withoutNul(witness.inputs.pubSurname),
              birthDate |-> witness.inputs.privDate,
              license |-> witness.inputs.privLicense,
              expDate |-> witness.inputs.privExpDate,
              nonce |-> witness.nonce]
        expectedCommitment == CommitmentHex(a)
    IN  expectedCommitment = witness.commitment

\* The changes made to a witness between its generation and its validation:
\* one element of one encoded input, or one digit of the stored commitment.
TamperFields ==
    {"pubName", "pubSurname", "commitment", "privDate", "privLicense", "privExpDate", "nonce"}
Flip(seq, p) == [seq EXCEPT ![p] = IF @ = 0 THEN 1 ELSE @ - 1]
Tampered(witness, field, p) ==
    IF field = "stored" THEN [witness EXCEPT !.commitment = Flip(@, p)]
    ELSE [witness EXCEPT !.inputs[field] = Flip(@, p)]

WitnessInputs ==
    [kind : {"witness"}, fn : {"WitnessGenerator", "LicenseVerificationSystem"},
     userData : WitnessDatas, witness : {NoWitness}, circuit : {"none"},
     tamper : {"none"}, verdict : {"none"}]

\* generateWitness(userData) or generateCircuitInputs(userData) is called, and
\* the witness calculator evaluates the circuit on the inputs built.
ApplyGenerateWitness ==
    /\ calc.kind = "witness"
    /\ calc.witness.state = "none"
    /\ \E drawn \in generateNonce, engine \in Engines :
            LET w == IF calc.fn = "WitnessGenerator"
                     THEN generateWitness(calc.userData, drawn, engine)
                     ELSE generateCircuitInputs(calc.userData, drawn)
            IN  calc' = [calc EXCEPT
                            !.witness = w,
                            !.circuit = IF w.state # "made" THEN "none"
                                        ELSE IF ProofOfLicense(w.inputs) THEN "satisfied"
                                        ELSE "unsatisfied"]
    /\ UNCHANGED <<genVars, appVars, batch, commit, lic>>

\* The witness object is changed in one place by its holder.
TamperWitness ==
    /\ calc.kind = "witness"
    /\ calc.fn = "WitnessGenerator"
    /\ calc.witness.state = "made"
    /\ calc.tamper = "none"
    /\ calc.verdict = "none"
    /\ \E field \in TamperFields \cup {"stored"} :
            /\ calc' = [calc EXCEPT !.witness = Tampered(calc.witness, field, 1),
                                    !.tamper = field]
    /\ UNCHANGED <<genVars, appVars, batch, commit, lic>>

\* WitnessGenerator.validateWitness(witness)
ApplyValidateWitness ==
    /\ calc.kind = "witness"
    /\ calc.fn = "WitnessGenerator"
    /\ calc.witness.state = "made"
    /\ calc.verdict = "none"
    /\ calc' = [calc EXCEPT !.verdict = IF validateWitness(calc.witness) THEN "true" ELSE "false"]
    /\ UNCHANGED <<genVars, appVars, batch, commit, lic>>

\* ------------------------------------------------------------ specification
\* Every step of a running invocation and of its subprocess.
Run(i) ==
    \/ gpProbeWitness(i)
    \/ wsProbe(i)
    \/ ensureDir(i)
    \/ writeInput(i)
    \/ ChildWrite(i)
    \/ ChildExit(i)
    \/ Timeout(i)
    \/ OrphanWrite(i)
    \/ OrphanExit(i)
    \/ ExecDone(i)
    \/ CheckOut(i)
    \/ StatOut(i)
    \/ ReadWitness(i)
    \/ ReadZkey(i)
    \/ Prove(i)
    \/ TestExists(i)
    \/ CleanupProbe(i)
    \/ CleanupRemove(i)

\* The applications as constructed, before any file check.
AppConstructed ==
    /\ fsOps = 0
    /\ currentFiles = [k \in Slots |-> NoPath]
    /\ report = NoReport
    /\ circuits = [c \in Circuits |->
            [files |-> [k \in Slots |-> NoPath], status |-> {}, requiredFound |-> 0,
             available |-> "undefined"]]
CalcIdle == calc = [kind |-> "none"]
AppIdle == fsys = {} /\ AppConstructed /\ BatchIdle /\ CommitIdle /\ LicIdle /\ CalcIdle

\* One invocation, every input, every bundle, every disk.
Init ==
    /\ inv = [i \in Procs |-> IdleInv]
    /\ tmpfs = [p \in TempPaths |-> Absent]
    /\ disk \in Disks
    /\ clock = 1
    /\ AppIdle

Next ==
    \/ Tick
    \/ generateProof(1, UserInputs, Bundles)
    \/ testWitnessScript(1, Bundles)
    \/ verifyProof(1)
    \/ Run(1)

Spec == Init /\ [][Next]_vars

\* The awaited operations of an invocation: each file-system call and the
\* proving backend settle.
Settle(i) ==
    \/ gpProbeWitness(i)
    \/ wsProbe(i)
    \/ ensureDir(i)
    \/ writeInput(i)
    \/ ExecDone(i)
    \/ CheckOut(i)
    \/ StatOut(i)
    \/ ReadWitness(i)
    \/ ReadZkey(i)
    \/ Prove(i)
    \/ TestExists(i)
    \/ CleanupProbe(i)
    \/ CleanupRemove(i)

\* One invocation in which every awaited operation settles and the witness
\* subprocess exits or is stopped by exec's timeout.
SpecLive ==
    /\ Init
    /\ [][Next]_vars
    /\ WF_vars(Settle(1))
    /\ WF_vars(ChildExit(1) \/ Timeout(1))

\* NProcs concurrent invocations on a complete bundle.
InitConc ==
    /\ inv = [i \in Procs |-> IdleInv]
    /\ tmpfs = [p \in TempPaths |-> Absent]
    /\ disk = ArtifactPaths
    /\ clock = 1
    /\ AppIdle

NextConc ==
    \/ Tick
    \/ \E i \in Procs : generateProof(i, {BaseInput}, {FullBundle})
    \/ \E i \in Procs : testWitnessScript(i, {FullBundle})
    \/ \E i \in Procs : Run(i)

SpecConc == InitConc /\ [][NextConc]_vars


\* The applications' file checks against a changing file system.
InitApp ==
    /\ inv = [i \in Procs |-> IdleInv]
    /\ tmpfs = [p \in TempPaths |-> Absent]
    /\ disk = ArtifactPaths
    /\ clock = 1
    /\ fsys \in InitFileSystems
    /\ AppConstructed
    /\ BatchIdle
    /\ CommitIdle
    /\ LicIdle
    /\ CalcIdle

NextApp ==
    \/ CreateFile
    \/ DeleteFile
    \/ checkRequiredFiles
    \/ \E c \in Circuits : checkCircuitFiles(c)
    \/ changeFilePath
    \/ searchFiles

SpecApp == InitApp /\ [][NextApp]_vars

\* The files an automatic search can come upon, in each of its directories.
SearchableFiles ==
    {<<AppDir, "LicenseB.wasm">>, <<AppDir, "vkey.json">>, <<"circuits", "LicenseA.wasm">>,
     <<"circuits", "circuit.zkey">>, <<"build", "circuit.wasm">>, <<"build", "*.zkey">>,
     <<"build", "verification_key.json">>, <<"assets", "witness.js">>,
     <<"assets", "generate_witness.cjs">>}

\* Automatic search and manual configuration, over every set of these files.
InitSearch ==
    /\ inv = [i \in Procs |-> IdleInv]
    /\ tmpfs = [p \in TempPaths |-> Absent]
    /\ disk = ArtifactPaths
    /\ clock = 1
    /\ fsys \in SUBSET SearchableFiles
    /\ AppConstructed
    /\ BatchIdle
    /\ CommitIdle
    /\ LicIdle
    /\ CalcIdle

NextSearch ==
    \/ changeFilePath
    \/ searchFiles

SpecSearch == InitSearch /\ [][NextSearch]_vars

\* The standalone verifier: initialize and one batchVerify call.
InitBatch ==
    /\ inv = [i \in Procs |-> IdleInv]
    /\ tmpfs = [p \in TempPaths |-> Absent]
    /\ disk = ArtifactPaths
    /\ clock = 1
    /\ AppIdle

NextBatch ==
    \/ initialize
    \/ pvVerifyProof
    \/ batchVerify
    \/ BatchItem
    \/ BatchReturn

SpecBatch == InitBatch /\ [][NextBatch]_vars

\* Commitments computed one after the other, on one object.
NextCommit ==
    \/ initializeSystem
    \/ calculateCommitment
    \/ calculateCommitmentHex
    \/ registerUser
    \/ proofCreationCommitment

SpecCommit == InitBatch /\ [][NextCommit]_vars

\* Generation calls made one after the other by a caller that keeps or
\* replaces its userData object.
InitLicense ==
    /\ inv = [i \in Procs |-> IdleInv]
    /\ tmpfs = [p \in TempPaths |-> Absent]
    /\ disk = ArtifactPaths
    /\ clock = 1
    /\ fsys = {} /\ AppConstructed /\ BatchIdle /\ CommitIdle /\ CalcIdle
    /\ \E u \in UserDatas : lic = [obj |-> u, supplied |-> u.nonce.set, log |-> <<>>]

NextLicense ==
    \/ newUserData
    \/ lvsGenerateProof
    \/ wgGenerateWitness
    \/ pcGenerateProof

SpecLicense == InitLicense /\ [][NextLicense]_vars

\* Each pure function applied to each of its inputs, and the license circuit
\* from generation to verification.
InitCalc ==
    /\ inv = [i \in Procs |-> IdleInv]
    /\ tmpfs = [p \in TempPaths |-> Absent]
    /\ disk = ArtifactPaths
    /\ clock = 1
    /\ fsys = {} /\ AppConstructed /\ BatchIdle /\ CommitIdle /\ LicIdle
    /\ calc \in EncodeInputs \cup DateInputs \cup SignalInputs \cup E2EInputs
                \cup WitnessInputs \cup HexInputs \cup AgeInputs

NextCalc ==
    \/ ApplyEncoder
    \/ ApplyFormatDate
    \/ ApplyValidateDate
    \/ ApplyIsValidDate
    \/ ApplyInterpret
    \/ e2eGenerate
    \/ e2eVerify
    \/ ApplyGenerateWitness
    \/ TamperWitness
    \/ ApplyValidateWitness
    \/ ApplyHex
    \/ ApplyComputeAge

SpecCalc == InitCalc /\ [][NextCalc]_vars


\* ================================================================== claims
Terminal(r) == r.pc \in {"returned", "thrown"}
Stages(r) == {r.trace[p][1] : p \in 1..Len(r.trace)}
Contains(msg, text) == \E p \in 1..Len(msg) : msg[p] = text
IsInfix(a, b) ==
    \E k \in 0..(Len(b) - Len(a)) : SubSeq(b, k + 1, k + Len(a)) = a

\* The temporary files written by invocation i (by it or by its subprocess).
OwnTemp(i) == {p \in TempPaths : tmpfs[p].ex /\ tmpfs[p].owner = i}

\* C1: once generateProofWithExternalScript or testWitnessScript has returned
\* or thrown, whichever stage failed, no temporary input or witness file
\* created for that invocation is left on disk.
C1_NoTempFileLeft ==
    \A i \in Procs : Terminal(inv[i]) => OwnTemp(i) = {}

\* The invocation holds temporary paths: it is between ensureDir and its return.
HasTempPaths(r) ==
    r.pc \in {"writeInput", "exec", "checkOut", "statOut", "readWitness", "readZkey",
              "prove", "t_exists", "cl_probe1", "cl_rm1", "cl_probe2", "cl_rm2"}
TempOf(r) == {InputFile(r), WitnessFile(r)}

\* C2: two concurrently running invocations never share a temporary input or
\* output path.
C2_DistinctTempPaths ==
    \A i, j \in Procs :
        (i # j /\ HasTempPaths(inv[i]) /\ HasTempPaths(inv[j]))
            => TempOf(inv[i]) \cap TempOf(inv[j]) = {}

\* C3: when exec's timeout has fired, the witness subprocess is terminated, the
\* proving backend is never invoked, and once the attempt has ended it has
\* thrown a timeout error and its temporary input and witness files do not
\* exist, at that moment or later.
C3_TimeoutAbortsAndCleans ==
    \A i \in Procs :
        (inv[i].op = "generateProof" /\ inv[i].child = "killed") =>
            /\ "prove" \notin Stages(inv[i])
            /\ Terminal(inv[i]) => ~inv[i].orphan
            /\ Terminal(inv[i]) =>
                /\ inv[i].pc = "thrown"
                /\ Contains(inv[i].err.msg, MsgTimeout)
                /\ ~tmpfs[InputFile(inv[i])].ex
                /\ ~tmpfs[WitnessFile(inv[i])].ex

MessageReplaced(r) ==
    /\ r.werr # NoErr
    /\ \/ r.origErr.code \in {"ENOENT", "EMFILE", "ENFILE"}
       \/ r.origErr.signal = "SIGTERM"

C5_DistinctWitnessErrors ==
    \A i \in Procs :
        inv[i].werr # NoErr =>
            (Head(inv[i].werr.msg) = PfxScript <=> inv[i].cause = "exit")

\* C6: the witness stage is passed, and the proving backend reached, only if
\* the subprocess exited with status zero and the output file was seen to
\* exist with a size above zero; with no output file or a zero-byte one the
\* attempt throws.
PastWitness(r) ==
    \/ r.pc \in {"readWitness", "readZkey", "prove", "t_exists"}
    \/ Stages(r) \cap {"readWitness", "prove"} # {}
    \/ r.result.kind \in {"proof", "bool"}
C6_WitnessSuccessCriteria ==
    \A i \in Procs :
        /\ PastWitness(inv[i]) =>
                (inv[i].child = "exit0" /\ inv[i].obs.exists = "yes" /\ inv[i].obs.size > 0)
        /\ (inv[i].child = "exit0" /\ (inv[i].obs.exists = "no" \/ inv[i].obs.size = 0)) =>
                (inv[i].pc \in {"cl_probe1", "cl_rm1", "cl_probe2", "cl_rm2", "thrown"}
                    /\ inv[i].err # NoErr
                    /\ "prove" \notin Stages(inv[i]))

\* C6 witness: the subprocess exited with status zero, left a zero-byte output
\* file, and the attempt has thrown.
C6_Witness ==
    \E i \in Procs :
        /\ inv[i].child = "exit0" /\ inv[i].obs.size = 0
        /\ inv[i].pc = "thrown" /\ inv[i].op = "generateProof"


\* s is YYYY-MM-DD and names a day of the calendar.
RealCalendarDate(s) ==
    /\ DateRegex(s)
    /\ DigitsValue(s, 6, 7) \in 1..12
    /\ DigitsValue(s, 9, 10) \in 1..DaysInMonth(DigitsValue(s, 1, 4), DigitsValue(s, 6, 7))

\* The inputs the claim wants rejected.
InvalidInput(u) ==
    \/ u.name = <<>> \/ Len(u.name) > NameWidth
    \/ u.surname = <<>> \/ Len(u.surname) > NameWidth
    \/ ~RealCalendarDate(u.dob)
    \/ u.license \notin {<<65>>, <<66>>, <<67>>}

\* C7: for every input with an empty or over-long name or surname, a dob that
\* is no real YYYY-MM-DD calendar date, or a license outside A, B, C,
\* generateProof throws the validation error before any file probe, temporary
\* file, subprocess or backend call.
C7_InvalidInputRejectedBeforeIO ==
    \A i \in Procs :
        (inv[i].op = "generateProof" /\ InvalidInput(inv[i].input)) =>
            /\ inv[i].pc = "thrown"
            /\ inv[i].trace = <<Ev("validate", "")>>
            /\ Contains(inv[i].err.msg, MsgValidation)

\* The stages of a generateProof call in the order the claim gives them.
StageRank(stage) ==
    CASE stage = "validate" -> 1
      [] stage = "probe" -> 2
      [] stage = "encode" -> 3
      [] stage \in {"ensureDir", "writeInput", "exec", "checkOut"} -> 4
      [] stage \in {"readWitness", "readZkey", "prove"} -> 5
      [] OTHER -> 6
Count(r, stage) == Cardinality({p \in 1..Len(r.trace) : r.trace[p][1] = stage})
OnceAndAfterWitness(r) ==
    /\ Count(r, "exec") <= 1
    /\ Count(r, "prove") <= 1
    /\ "prove" \in Stages(r) =>
            (r.child = "exit0" /\ r.obs.exists = "yes" /\ r.obs.size > 0)
    /\ r.child \notin {"none", "running", "exit0"} => "prove" \notin Stages(r)

\* C8 as stated: the stages of one generateProof call run in the order
\* validation, file-bundle check, encoding, witness computation, proving, with
\* the witness executable and the backend invoked at most once each, the
\* backend only after the witness stage succeeded.
C8_StageOrder ==
    \A i \in Procs :
        inv[i].op = "generateProof" =>
            /\ \A p, q \in 1..Len(inv[i].trace) :
                    p < q => StageRank(inv[i].trace[p][1]) <= StageRank(inv[i].trace[q][1])
            /\ OnceAndAfterWitness(inv[i])

\* What a generateProof call does before cleanup, in order.
GenerateSequence ==
    <<Ev("validate", ""), Ev("probe", "witness"), Ev("encode", ""), Ev("probe", "wasm"),
      Ev("probe", "zkey"), Ev("probe", "witness"), Ev("ensureDir", ""), Ev("writeInput", ""),
      Ev("exec", ""), Ev("checkOut", ""), Ev("readWitness", ""), Ev("readZkey", ""),
      Ev("prove", "")>>
BeforeCleanup(t) ==
    LET cut == {p \in 1..Len(t) : t[p][1] = "cleanup"}
    IN  IF cut = {} THEN t
        ELSE SubSeq(t, 1, (CHOOSE p \in cut : \A q \in cut : p <= q) - 1)

\* C8 amended: the stages run in the order validation, presence check of the
\* witness script, encoding, existence check of the wasm, zkey and witness
\* script files, witness computation, proving, each at most once, followed
\* only by cleanup; the backend is invoked only after the witness stage
\* succeeded, and a failed witness stage is neither retried nor replaced.
C8_StageOrderAmended ==
    \A i \in Procs :
        inv[i].op = "generateProof" =>
            /\ Len(BeforeCleanup(inv[i].trace)) <= Len(GenerateSequence)
            /\ BeforeCleanup(inv[i].trace)
                    = SubSeq(GenerateSequence, 1, Len(BeforeCleanup(inv[i].trace)))
            /\ \A p, q \in 1..Len(inv[i].trace) :
                    (p < q /\ inv[i].trace[p][1] = "cleanup") => inv[i].trace[q][1] = "cleanup"
            /\ OnceAndAfterWitness(inv[i])

\* C8 witness: a call that went through every stage and returned a proof.
C8_Witness ==
    \E i \in Procs :
        /\ inv[i].op = "generateProof" /\ inv[i].pc = "returned"
        /\ inv[i].result.kind = "proof"
        /\ BeforeCleanup(inv[i].trace) = GenerateSequence

\* The slots of the bundle that are unset or whose file does not exist.
MissingSlots(r, S) == {k \in S : r.files[k] = Null \/ r.files[k] \notin disk}
\* The error message names slot k.
NamesSlot(msg, k) ==
    \/ Contains(msg, k)
    \/ k = "witness" /\ Contains(msg, MsgNoScript)
NoTempNoExec(r) == Stages(r) \cap {"ensureDir", "writeInput", "exec"} = {}

RequiredSlots == {"witness", "wasm", "zkey"}
FirstMissing(r) ==
    IF "witness" \in MissingSlots(r, RequiredSlots) THEN "witness"
    ELSE IF "wasm" \in MissingSlots(r, RequiredSlots) THEN "wasm" ELSE "zkey"

C10_MissingSlotsExact ==
    [][/\ checkRequiredFiles =>
            LET gone == NotFound(AppDir, filesToCheck, fsys')
            IN  /\ {k \in Slots : currentFiles'[k] = NoPath} = gone
                /\ report'.status = gone
                /\ report'.listed = gone
       /\ \A c \in Circuits : checkCircuitFiles(c) =>
            LET gone == NotFound(basePath(c), circuitFilesToCheck, fsys')
            IN  /\ {k \in Slots : circuits'[c].files[k] = NoPath} = gone
                /\ circuits'[c].status = gone
                /\ circuits'[c].available = "true" <=> gone = {}]_vars


\* C11: after a refresh, interleaved in any way with manual path changes,
\* automatic searches and changes of the file system, the 'generate proof'
\* entry is enabled only if that refresh found every one of the four slots.
C11_GenerationGatedByLatestRefresh ==
    [][/\ checkRequiredFiles =>
            (allFilesPresent' => NotFound(AppDir, filesToCheck, fsys') = {})
       /\ \A c \in Circuits : checkCircuitFiles(c) =>
            (circuitAvailable(c)' => NotFound(basePath(c), circuitFilesToCheck, fsys') = {})]_vars


\* path is the primary file of the entry if that exists in dir, and otherwise
\* the earliest of its alternates that exists.
ResolvesToFirst(dir, file, path, fs) ==
    /\ <<dir, file.name>> \in fs => path = <<dir, file.name>>
    /\ \A p \in 1..Len(file.alt) :
            (/\ <<dir, file.name>> \notin fs
             /\ <<dir, file.alt[p]>> \in fs
             /\ \A q \in 1..(p - 1) : <<dir, file.alt[q]>> \notin fs)
                => path = <<dir, file.alt[p]>>

\* C12: a run of checkRequiredFiles / checkCircuitFiles leaves each slot for
\* which a candidate exists in the directory at the primary file if that
\* exists, even when alternates exist too, and otherwise at the earliest
\* existing alternate in the listed order.
C12_FirstCandidateWins ==
    [][/\ checkRequiredFiles =>
            \A p \in 1..Len(filesToCheck) :
                ResolvesToFirst(AppDir, filesToCheck[p], currentFiles'[filesToCheck[p].key], fsys')
       /\ \A c \in Circuits : checkCircuitFiles(c) =>
            \A p \in 1..Len(circuitFilesToCheck) :
                ResolvesToFirst(basePath(c), circuitFilesToCheck[p],
                                circuits'[c].files[circuitFilesToCheck[p].key], fsys')]_vars

\* C12 witness: with circuit.zkey and LicenseA.zkey absent and both
\* LicenseB.zkey and LicenseC.zkey present, the check has resolved the slot.
C12_Witness ==
    /\ report.ran
    /\ currentFiles.zkey = <<AppDir, "LicenseB.zkey">>
    /\ {<<AppDir, "LicenseB.zkey">>, <<AppDir, "LicenseC.zkey">>} \subseteq fsys
    /\ {<<AppDir, "circuit.zkey">>, <<AppDir, "LicenseA.zkey">>} \cap fsys = {}


\* C13: every run of checkRequiredFiles / checkCircuitFiles leaves the file
\* system as it was, and ends in a state that one more run on the unchanged
\* file system would leave exactly as it is (resolved bundle and availability).
C13_ResolutionIdempotent ==
    [][/\ checkRequiredFiles =>
            /\ fsys' = fsys
            /\ ProbeAll(AppDir, filesToCheck, currentFiles', fsys') = currentFiles'
       /\ \A c \in Circuits : checkCircuitFiles(c) =>
            /\ fsys' = fsys
            /\ ProbeAll(basePath(c), circuitFilesToCheck, circuits'[c].files, fsys')
                    = circuits'[c].files
            /\ circuits'[c].available
                    = (IF NotFound(basePath(c), circuitFilesToCheck, fsys') # {}
                       THEN "false" ELSE "true")]_vars

\* C13 witness: both applications have run their check on a file system that
\* resolves some slots and not others.
C13_Witness ==
    /\ report.ran /\ report.requiredFound \in 1..3
    /\ circuits["license"].available = "false"
    /\ circuits["license"].requiredFound \in 1..3


\* The shapes of a verifyProof payload.
IsContainer(p) == p.t = "obj" /\ p.hasProof /\ p.publicSignals.t # "undef"
IsBareProof(p) ==
    /\ p.t = "obj" /\ ~IsContainer(p)
    /\ p.bare.pi_a.t # "undef" /\ p.bare.pi_b.t # "undef" /\ p.bare.pi_c.t # "undef"
BackendReached(r) == "backend" \in Stages(r)
MsgMissingSignals == "Signaux publics manquants"

ProofOf(p) == IF p.hasProof THEN p.proof ELSE p.bare
IsTriple(v) == v.t = "arr" /\ v.len = 3
IsTripleOfArrays(v) == IsTriple(v) /\ v.first = "arr" /\ v.rest = "arr"
MalformedProof(pr) ==
    \/ pr.pi_a.t = "undef" \/ pr.pi_b.t = "undef" \/ pr.pi_c.t = "undef"
    \/ ~IsTriple(pr.pi_a) \/ ~IsTriple(pr.pi_c)
    \/ ~IsTripleOfArrays(pr.pi_b)
FormatMessages ==
    {"Champ manquant dans la preuve: pi_a", "Champ manquant dans la preuve: pi_b",
     "Champ manquant dans la preuve: pi_c", "Format invalide pour pi_a",
     "Format invalide pour pi_b", "Format invalide pour pi_c", "Format de preuve non reconnu."}

\* C15: a payload whose proof lacks pi_a, pi_b or pi_c, or whose pi_a or pi_c
\* is no 3-element array, or whose pi_b is no 3-element array of arrays, is
\* rejected with a format error and the backend is not called.
C15_MalformedProofRejected ==
    \A i \in Procs :
        (/\ inv[i].op = "verifyProof"
         /\ inv[i].vin.payload.t = "obj"
         /\ MalformedProof(ProofOf(inv[i].vin.payload))) =>
            /\ inv[i].pc = "thrown"
            /\ ~BackendReached(inv[i])
            /\ \E m \in FormatMessages : Contains(inv[i].err.msg, m)

\* A publicSignals element that is a non-negative integer, as a string of
\* decimal digits or as a number.
IsNaturalSignal(e) ==
    \/ e.t = "str" /\ e.s # <<>> /\ \A q \in 1..Len(e.s) : e.s[q] \in 48..57
    \/ e.t = "num" /\ e.n >= 0

\* C16: the backend is reached only with publicSignals a non-empty array whose
\* elements are all non-negative integers (digit strings or numbers).
C16_SignalsAreNaturals ==
    \A i \in Procs :
        (inv[i].op = "verifyProof" /\ BackendReached(inv[i])) =>
            LET sg == extractProofData(inv[i].vin.payload, inv[i].vin.supplied).publicSignals
            IN  /\ sg.t = "arr"
                /\ sg.els # <<>>
                /\ \A q \in 1..Len(sg.els) : IsNaturalSignal(sg.els[q])


\* C17: verifyProof reaches the backend only after the proof-shape check, the
\* public-signal check and the check of the verification key (the file exists
\* and has its four fields) have passed, in that order; a returned result has
\* valid equal to the backend's answer and publicSignals equal to the
\* normalised input signals.
C17_BackendAfterChecks ==
    \A i \in Procs :
        inv[i].op = "verifyProof" =>
            LET x == extractProofData(inv[i].vin.payload, inv[i].vin.supplied)
            IN  /\ BackendReached(inv[i]) =>
                    /\ Len(inv[i].trace) = 4
                    /\ SubSeq(inv[i].trace, 1, 3)
                            = <<Ev("extract", ""), Ev("validate", ""), Ev("readVkey", "")>>
                    /\ inv[i].trace[4][1] = "backend"
                    /\ x.err = NoErr
                    /\ validateProofFormat(x.proof) = ""
                    /\ validatePublicSignals(x.publicSignals) = ""
                    /\ PathOf("vkey") \in disk
                    /\ inv[i].vin.vk = "ok"
                /\ inv[i].pc = "returned" =>
                    /\ BackendReached(inv[i])
                    /\ inv[i].vres.valid = (inv[i].trace[4] = Ev("backend", "true"))
                    /\ inv[i].trace[4] \in {Ev("backend", "true"), Ev("backend", "false")}
                    /\ inv[i].vres.publicSignals = x.publicSignals

\* C17 witness: the backend answered false and verifyProof returned.
C17_Witness ==
    \E i \in Procs :
        /\ inv[i].op = "verifyProof" /\ inv[i].pc = "returned"
        /\ inv[i].trace[4] = Ev("backend", "false")
        /\ ~inv[i].vres.valid


\* What verifying one element on its own gives: whether it counts as valid,
\* and whether it is reported with an error.
AloneValid(key, item) == key = "loaded" /\ item = "valid"
AloneErrored(key, item) == key = "null" \/ item \in {"throws", "undefined"}

\* C18: batchVerify over n proofs returns exactly n results, the entry at
\* position i carrying index i (from 0) and the outcome of verifying the i-th
\* input on its own; an element that is malformed or whose verification throws
\* is recorded as invalid with its error, and the elements after it are still
\* processed.
C18_BatchPerItem ==
    /\ batch.pc = "loop" => Len(batch.results) = batch.i
    /\ batch.pc = "returned" =>
            /\ Len(batch.report.results) = Len(batch.proofs)
            /\ \A p \in 1..Len(batch.proofs) :
                    /\ batch.report.results[p].index = p - 1
                    /\ batch.report.results[p].valid = AloneValid(batch.key, batch.proofs[p])
                    /\ (batch.report.results[p].error # "")
                            <=> AloneErrored(batch.key, batch.proofs[p])

\* C18 witness: a batch of three whose second element makes the backend throw
\* has returned, with the first and third elements found valid.
C18_Witness ==
    /\ batch.pc = "returned"
    /\ batch.proofs = <<"valid", "throws", "valid">>
    /\ batch.report.results[3].valid

\* C19: in the report of batchVerify, total is the number of inputs, valid the
\* number of results with valid = true, invalid the number of the other
\* results, and valid + invalid = total.
C19_BatchCounts ==
    batch.pc = "returned" =>
        LET rs == batch.report.results
        IN  /\ batch.report.total = Len(batch.proofs)
            /\ batch.report.valid = Cardinality({p \in 1..Len(rs) : rs[p].valid})
            /\ batch.report.invalid = Cardinality({p \in 1..Len(rs) : ~rs[p].valid})
            /\ batch.report.valid + batch.report.invalid = batch.report.total

\* C19 witness: a report with one valid, one invalid and one errored item.
C19_Witness ==
    /\ batch.pc = "returned"
    /\ batch.proofs = <<"invalid", "undefined", "valid">>
    /\ batch.report.valid = 1 /\ batch.report.invalid = 2


C21_SamePreimageEverywhere ==
    \A p, q \in 1..Len(commit.log) :
        commit.log[p].args = commit.log[q].args
            => /\ commit.log[p].data = commit.log[q].data
               /\ commit.log[p].digest = commit.log[q].digest
               /\ commit.log[p].data = HashedData(commit, commit.log[p].args)


\* C22: a generation call whose caller did not supply a nonce uses a nonce
\* that no earlier call used, also when the same userData object is passed
\* again.
C22_FreshNoncePerCall ==
    \A p, q \in 1..Len(lic.log) :
        (p < q /\ ~lic.log[q].supplied) => lic.log[q].nonce # lic.log[p].nonce


\* C30: a generation call leaves every field of the caller's userData as it
\* was, an absent nonce included, whether the call returns or throws.
C30_UserDataUntouched ==
    \A p \in 1..Len(lic.log) : lic.log[p].after = lic.log[p].before


\* The width each generation path declares for the name.
DeclaredWidth(fn) == IF fn = "proofCreation.generateProof" THEN ShortNameWidth ELSE FieldWidth

\* C25: a generation call on a name longer than the declared width throws and
\* produces no encoded array, and a name of exactly the declared width is
\* encoded whole and is not refused for its length.
C25_OverlongNameFails ==
    \A p \in 1..Len(lic.log) :
        LET c == lic.log[p]
            w == DeclaredWidth(c.fn)
        IN  /\ Len(c.before.name) > w => (c.outcome = "thrown" /\ c.pubName = <<>>)
            /\ Len(c.before.name) = w =>
                    /\ c.msg # "Le nom ne peut pas depasser 64 caracteres"
                    /\ c.pubName # <<>> => c.pubName = c.before.name


\* C23: the artifact generateProof returns shows nothing of the private
\* attributes: every input with the same name and surname, whatever its date
\* of birth and license, gives with the same publicSignals the same artifact.
C23_ArtifactHidesPrivateData ==
    \A i \in Procs :
        (inv[i].op = "generateProof" /\ inv[i].result.kind = "proof")
            => \A u \in UserInputs :
                   (u.name = inv[i].input.name /\ u.surname = inv[i].input.surname)
                       => BuildResult(u, inv[i].result.sig) = inv[i].result


\* C24: for a string no longer than the width, every encoder returns width
\* elements, the codes of the string followed by zeros, and the four encoders
\* return the same array; a date is encoded as its ten character codes.
C24_EncodersPadAndAgree ==
    calc.kind = "encode" =>
        /\ Len(calc.str) <= calc.width =>
                \A f \in EncoderNames :
                    calc.out[f].done =>
                        /\ Len(calc.out[f].v) = calc.width
                        /\ \A p \in 1..calc.width :
                               calc.out[f].v[p] = IF p <= Len(calc.str) THEN calc.str[p] ELSE 0
                        /\ \A g \in EncoderNames :
                               calc.out[g].done => calc.out[g].v = calc.out[f].v
        /\ (calc.date.done /\ DateRegex(calc.str)) =>
                (~calc.date.threw /\ calc.date.v = calc.str)

\* C24 witness: the four encoders have encoded "2000-02-29" to width 16, with
\* zeros from the eleventh element on, and formatDateToAscii has encoded it.
C24_Witness ==
    /\ calc.kind = "encode"
    /\ calc.str = dLeap /\ calc.width = NameWidth
    /\ \A f \in EncoderNames :
           calc.out[f].done /\ calc.out[f].v[10] = 57 /\ calc.out[f].v[11] = 0
    /\ calc.date.done /\ ~calc.date.threw /\ Len(calc.date.v) = 10


\* C26: validateDate and isValidDate accept a string exactly when it is
\* YYYY-MM-DD and names a day of the calendar, and the two agree.
C26_DateValidatorsExact ==
    calc.kind = "date" =>
        /\ calc.vd.done => ((calc.vd.v = "true") <=> RealCalendarDate(calc.s))
        /\ calc.iv.done => (calc.iv.v <=> RealCalendarDate(calc.s))
        /\ (calc.vd.done /\ calc.iv.done) => ((calc.vd.v = "true") <=> calc.iv.v)


\* The signal is the string "1" or the number 1.
DenotesOne(e) == (e.t = "str" /\ e.s = <<49>>) \/ (e.t = "num" /\ e.n = 1)

\* C28: at generation, at verification and in the age-18 outcome the boolean
\* is true exactly when the first public signal is "1" or 1, so the three
\* places never read the same publicSignals differently.
C28_SignalInterpretedAlike ==
    calc.kind = "signals" =>
        \A site \in InterpretSites :
            calc.out[site].done =>
                /\ calc.out[site].v <=> DenotesOne(calc.publicSignals.els[1])
                /\ \A other \in InterpretSites :
                       calc.out[other].done => (calc.out[other].v <=> calc.out[site].v)

C29_GenerateSettlesOnce ==
    /\ (inv[1].op = "generateProof") ~> Terminal(inv[1])
    /\ [](\A i \in Procs :
            (inv[i].op = "generateProof" /\ Terminal(inv[i])) =>
                /\ (inv[i].pc = "returned") <=> (inv[i].result.kind = "proof")
                /\ (inv[i].pc = "returned") <=> (inv[i].err = NoErr)
                /\ (inv[i].pc = "thrown") <=> (inv[i].err # NoErr))
    /\ [][\A i \in Procs : Terminal(inv[i]) => inv[i].pc' = inv[i].pc]_vars

\* C29 witness: a generateProof invocation whose subprocess was stopped by the
\* timeout has ended with an error.
C29_Witness ==
    /\ inv[1].op = "generateProof" /\ inv[1].pc = "thrown"
    /\ inv[1].child = "killed"

\* C31 (as stated): the standalone verifier is initialised exactly by a
\* successful initialize(): after an initialize() that threw the verifier is
\* uninitialised, and a verifyProof that follows it throws the
\* not-initialised error.
C31_FailedInitializeUninitialised ==
    batch.last.op = "initialize" /\ batch.last.outcome = "threw" => batch.key = "null"

\* C31 (amended): verificationKey becomes usable only in a step that is an
\* initialize() which returned; an initialize() that threw leaves
\* verificationKey as it was before the call; a direct verifyProof reaches the
\* backend exactly when verificationKey is set, and throws the not-initialised
\* error without reaching it otherwise; inside batchVerify no element is
\* verified by the backend while verificationKey is null.
C31_InitializeThenVerify ==
    [][/\ (batch.key = "null" /\ batch'.key # "null")
            => (batch'.last.op = "initialize" /\ batch'.last.outcome = "returned")
       /\ (batch'.last.n = batch.last.n + 1 /\ batch'.last.op = "initialize"
                /\ batch'.last.outcome = "threw")
            => batch'.key = batch.key
       /\ (batch'.last.n = batch.last.n + 1 /\ batch'.last.op = "verifyProof")
            => /\ batch'.key = batch.key
               /\ batch'.last.backend <=> batch.key # "null"
               /\ (batch'.last.outcome = "threw") <=> batch.key = "null"
               /\ batch'.last.outcome = "threw"
                    => batch'.last.error = "Verificateur non initialise"
       /\ (batch.key = "null" /\ Len(batch'.results) = Len(batch.results) + 1)
            => /\ ~batch'.results[Len(batch'.results)].valid
               /\ batch'.results[Len(batch'.results)].error
                    \in {"Verificateur non initialise", "Cannot read properties of undefined"}
      ]_vars

\* C31 witness: an initialize() succeeded and a later one threw on a missing
\* key file; the verifier still holds the key loaded first.
C31_Witness ==
    /\ batch.last.op = "initialize" /\ batch.last.outcome = "threw"
    /\ batch.last.error = "Cle de verification non trouvee"
    /\ batch.key = "loaded"

\* C32: a direct verifyProof returns valid = true only when the backend was
\* reached and answered true for the proof given; when the backend throws, the
\* result is valid = false with the backend's message; in batchVerify the valid
\* count is the number of elements processed so far for which the backend
\* answered true, so it is 0 on an uninitialised verifier and never includes an
\* element whose verification threw.
C32_ValidOnlyFromBackend ==
    /\ (batch.last.op = "verifyProof" /\ batch.last.valid)
            => /\ batch.last.outcome = "returned" /\ batch.last.backend
               /\ batch.last.item = "valid" /\ batch.last.error = ""
    /\ (batch.last.op = "verifyProof" /\ batch.last.item = "throws" /\ batch.last.backend)
            => /\ batch.last.outcome = "returned" /\ ~batch.last.valid
               /\ batch.last.error = "snarkjs: invalid proof"
    /\ batch.pc \in {"loop", "returned"}
            => /\ batch.validCount
                    = Cardinality({p \in 1..Len(batch.results) :
                            batch.key # "null" /\ batch.proofs[p] = "valid"})
               /\ \A p \in 1..Len(batch.results) :
                    batch.results[p].valid
                        <=> (batch.key # "null" /\ batch.proofs[p] = "valid")
    /\ batch.pc = "returned" => batch.report.valid = batch.validCount

\* C32 witness: a batch on an initialised verifier returned with a throwing
\* element and a valid one, after a direct verifyProof whose backend threw.
C32_Witness ==
    /\ batch.pc = "returned" /\ batch.key = "loaded"
    /\ batch.proofs = <<"throws", "valid">>
    /\ batch.report.valid = 1
    /\ batch.last.op = "verifyProof" /\ batch.last.item = "throws"

\* C33: whenever LicenseVerificationSystem or WitnessGenerator builds the
\* ProofOfLicense inputs of a userData it accepts, the string given to the
\* hash is, character for character, the concatenation of the encoded name,
\* surname, dob, license, expiration date and nonce, and the circuit, hashing
\* its inputs itself, finds the commitment it was given.
C33_HashedStringIsEncodedInputs ==
    (calc.kind = "witness" /\ calc.witness.state = "made" /\ calc.tamper = "none")
        => /\ calc.witness.fullData = fullInput(calc.witness.inputs)
           /\ calc.circuit = "satisfied"

\* C35: validateWitness returns true on a witness as generateWitness returned
\* it, and false on one of which an encoded input or the stored commitment was
\* changed since.
C35_WitnessRoundTrip ==
    (calc.kind = "witness" /\ calc.verdict # "none")
        => (calc.verdict = "true" <=> calc.tamper = "none")

\* The first existing candidate of slot k: the directories in the order
\* application directory, circuits, build, assets, and in a directory the
\* slot's names in the order of its list.
SearchOrder == <<AppDir, "circuits", "build", "assets">>
CandidatesInOrder(k) ==
    {<<d, p>> : d \in 1..Len(SearchOrder), p \in 1..Len(filePatterns[k])}
Earlier(a, b) == a[1] < b[1] \/ (a[1] = b[1] /\ a[2] <= b[2])
FirstCandidate(k, fs) ==
    LET existing == {c \in CandidatesInOrder(k) :
                        <<SearchOrder[c[1]], filePatterns[k][c[2]]>> \in fs}
    IN  IF existing = {} THEN NoPath
        ELSE LET c == CHOOSE c \in existing : \A e \in existing : Earlier(c, e)
             IN  <<SearchOrder[c[1]], filePatterns[k][c[2]]>>

\* C34: a run of searchFiles leaves every slot that was already resolved as
\* it was, gives every unresolved slot the first existing candidate in the
\* order application directory, circuits, build, assets (none if there is
\* none), and reports as found the number of slots it newly resolved, which
\* is at most four.
C34_SearchResolvesUnresolvedInOrder ==
    [][(currentFiles' = SearchFrom(1, currentFiles, fsys))
        => /\ \A k \in Slots :
                /\ currentFiles[k] # NoPath => currentFiles'[k] = currentFiles[k]
                /\ currentFiles[k] = NoPath => currentFiles'[k] = FirstCandidate(k, fsys)
           /\ SearchFound(1, currentFiles, fsys)
                = Cardinality({k \in Slots : currentFiles[k] = NoPath
                                                /\ currentFiles'[k] # NoPath})
           /\ SearchFound(1, currentFiles, fsys) <= 4
      ]_vars

\* C34 witness: the wasm slot keeps the path configured by hand although an
\* earlier candidate exists, and the search has resolved the three others
\* from three different directories, the zkey in circuits although build
\* holds one too.
C34_Witness ==
    /\ currentFiles["wasm"] = <<"build", "circuit.wasm">>
    /\ <<"circuits", "LicenseA.wasm">> \in fsys
    /\ currentFiles["zkey"] = <<"circuits", "circuit.zkey">>
    /\ <<"build", "*.zkey">> \in fsys
    /\ currentFiles["vkey"] = <<AppDir, "vkey.json">>
    /\ <<"build", "verification_key.json">> \in fsys
    /\ currentFiles["witness"] = <<"assets", "generate_witness.cjs">>

\* The bits of a hexadecimal string, four for each digit, the highest first.
BitsOf(h) == [p \in 1..(4 * Len(h)) |-> (HexValue(h[((p - 1) \div 4) + 1]) \div (2 ^ (3 - ((p - 1) % 4)))) % 2]

FullYears(birth, today) ==
    (today.y - birth.y)
        - (IF today.m < birth.m \/ (today.m = birth.m /\ today.d < birth.d) THEN 1 ELSE 0)

\* C37: in the age-18 flow the age computed from an accepted date of birth is
\* the number of full years elapsed, is not negative when the date is not
\* after today, and the flow goes on to proof generation with it.
C37_AgeIsFullYears ==
    (calc.kind = "age" /\ calc.out.done) =>
        LET birth == NewDate(calc.dob, calc.engine)
        IN  /\ ~calc.out.threw
            /\ calc.next = "generateProofForCircuit"
            /\ calc.out.v = FullYears(birth, calc.today)
            /\ FullYears(birth, calc.today) >= 0 => calc.out.v >= 0

\* C38: the public signal of the LicenseA circuit is 1 for license code 65
\* and 0 for every other code.
C38_HasLicenseABoolean ==
    (calc.kind = "e2e" /\ calc.artifact.state = "made") =>
        calc.artifact.result.sig
            = SArr(<<SigStr(IF calc.input.license = <<65>> THEN <<49>> ELSE <<48>>)>>)
====
